---- MODULE Spec2Model ----
(***************************************************************************)
(* A model of tf/edgeml/graph/rnn.py: the FastRNN and FastGRNN cells, the  *)
(* variable store they create their parameters in, the EMI-RNN wrappers    *)
(* that restore and assign those parameters by position, and the input     *)
(* pipeline EMI_DataPipeline.                                              *)
(*                                                                         *)
(* Numbers are exact rationals <<n, d>> (d > 0, lowest terms): matrix      *)
(* products, sums and the piecewise-linear activations are computed        *)
(* exactly.  tanh and sigmoid are tabulated to the grid of eighths.        *)
(***************************************************************************)
EXTENDS Integers, Sequences, FiniteSets, TLC

(***************************************************************************)
(* Bounds of the model.                                                    *)
(***************************************************************************)
MaxSteps == 2
MaxHidden == 2
MaxRank == 1

\* wRank=None, uRank=None: no rank; a rank r is <<r>>.
None == <<>>

(***************************************************************************)
(* Exact rational arithmetic.                                              *)
(***************************************************************************)
Abs(n) == IF n < 0 THEN -n ELSE n

RECURSIVE GCD(_, _)
GCD(a, b) == IF b = 0 THEN a ELSE GCD(b, a % b)

Rat(n, d) ==
    LET g == GCD(Abs(n), Abs(d))
        s == IF d < 0 THEN -1 ELSE 1
    IN  <<(s * n) \div g, (s * d) \div g>>

RInt(n) == <<n, 1>>
RZero == RInt(0)
ROne == RInt(1)
\* The sum over the least common denominator.
RAdd(a, b) ==
    LET g == GCD(a[2], b[2])
    IN  Rat(a[1] * (b[2] \div g) + b[1] * (a[2] \div g), a[2] * (b[2] \div g))
RNeg(a) == <<-a[1], a[2]>>
RSub(a, b) == RAdd(a, RNeg(b))
RMul(a, b) == Rat(a[1] * b[1], a[2] * b[2])
RLess(a, b) == a[1] * b[2] < b[1] * a[2]
RLeq(a, b) == a[1] * b[2] <= b[1] * a[2]
RMax(a, b) == IF RLess(a, b) THEN b ELSE a
RMin(a, b) == IF RLess(b, a) THEN b ELSE a

(***************************************************************************)
(* The activations on one number.                                          *)
(* math_ops.sigmoid, tabulated: the value is the nearest eighth of         *)
(* 1/(1+exp(-x)), and the tails stay at 1/8 and 7/8, inside (0,1) as the   *)
(* logistic function does.  The breakpoints 1/4, 4/5 and 3/2 are the       *)
(* arguments at which the logistic function crosses 9/16, 11/16 and 13/16. *)
(***************************************************************************)
SigmoidS(x) ==
    IF RLess(x, Rat(-3, 2)) THEN Rat(1, 8)
    ELSE IF RLess(x, Rat(-4, 5)) THEN Rat(2, 8)
    ELSE IF RLess(x, Rat(-1, 4)) THEN Rat(3, 8)
    ELSE IF RLess(x, Rat(1, 4)) THEN Rat(4, 8)
    ELSE IF RLess(x, Rat(4, 5)) THEN Rat(5, 8)
    ELSE IF RLess(x, Rat(3, 2)) THEN Rat(6, 8)
    ELSE Rat(7, 8)

\* math_ops.tanh: tanh(x) = 2 * sigmoid(2x) - 1, on the same table.
TanhS(x) == RSub(RMul(RInt(2), SigmoidS(RMul(RInt(2), x))), ROne)

\* Faulty variant: an unrecognised name leaves the input as it is.
NonLinS_unknownIsIdentity(x, non_linearity) ==
    IF non_linearity = "tanh" THEN TanhS(x)
    ELSE IF non_linearity = "sigmoid" THEN SigmoidS(x)
    ELSE IF non_linearity = "relu" THEN RMax(x, RZero)
    ELSE IF non_linearity = "quantTanh" THEN RMax(RMin(x, ROne), RNeg(ROne))
    ELSE IF non_linearity = "quantSigm"
         THEN RMax(RMin(RMul(RAdd(x, ROne), Rat(1, 2)), ROne), RZero)
    ELSE x

\* Faulty variant: quantTanh clips below at 0.
NonLinS_quantTanhClipsAtZero(x, non_linearity) ==
    IF non_linearity = "tanh" THEN TanhS(x)
    ELSE IF non_linearity = "sigmoid" THEN SigmoidS(x)
    ELSE IF non_linearity = "relu" THEN RMax(x, RZero)
    ELSE IF non_linearity = "quantTanh" THEN RMax(RMin(x, ROne), RZero)
    ELSE IF non_linearity = "quantSigm"
         THEN RMax(RMin(RMul(RAdd(x, ROne), Rat(1, 2)), ROne), RZero)
    ELSE TanhS(x)

\* Faulty variant: quantSigm clips its input without (A + 1.0) / 2.0.
NonLinS_quantSigmUnscaled(x, non_linearity) ==
    IF non_linearity = "tanh" THEN TanhS(x)
    ELSE IF non_linearity = "sigmoid" THEN SigmoidS(x)
    ELSE IF non_linearity = "relu" THEN RMax(x, RZero)
    ELSE IF non_linearity = "quantTanh" THEN RMax(RMin(x, ROne), RNeg(ROne))
    ELSE IF non_linearity = "quantSigm" THEN RMax(RMin(x, ROne), RZero)
    ELSE TanhS(x)

\* gen_non_linearity on one element.
NonLinS(x, non_linearity) ==
    IF non_linearity = "tanh" THEN TanhS(x)
    ELSE IF non_linearity = "sigmoid" THEN SigmoidS(x)
    ELSE IF non_linearity = "relu" THEN RMax(x, RZero)
    ELSE IF non_linearity = "quantTanh" THEN RMax(RMin(x, ROne), RNeg(ROne))
    ELSE IF non_linearity = "quantSigm"
         THEN RMax(RMin(RMul(RAdd(x, ROne), Rat(1, 2)), ROne), RZero)
    ELSE TanhS(x)

(***************************************************************************)
(* Tensors: [shape |-> <<d1, ..., dk>>, val |-> rows] where, for a 2-D     *)
(* tensor, val is the sequence of its rows.  A tensor that is not 2-D      *)
(* carries no values: every operation of the cells rejects it.             *)
(***************************************************************************)
Tensor2(rows) == [shape |-> <<Len(rows), Len(rows[1])>>, val |-> rows]
NDims(T) == Len(T.shape)
LastDim(T) == T.shape[Len(T.shape)]
Mk(r, c, f(_, _)) ==
    [shape |-> <<r, c>>, val |-> [i \in 1..r |-> [j \in 1..c |-> f(i, j)]]]

RECURSIVE SumTo(_, _)
SumTo(f, n) == IF n = 0 THEN RZero ELSE RAdd(SumTo(f, n - 1), f[n])

\* math_ops.matmul on 2-D tensors: defined when the inner dimensions agree.
MatMulOk(A, B) ==
    NDims(A) = 2 /\ NDims(B) = 2 /\ A.shape[2] = B.shape[1]
MatMul(A, B) ==
    Mk(A.shape[1], B.shape[2],
       LAMBDA i, j : SumTo([k \in 1..A.shape[2] |->
                               RMul(A.val[i][k], B.val[k][j])], A.shape[2]))

\* Elementwise operations broadcast a dimension of size 1.
BroadcastOk(A, B) ==
    /\ NDims(A) = 2 /\ NDims(B) = 2
    /\ \A k \in 1..2 : A.shape[k] = B.shape[k] \/ A.shape[k] = 1 \/ B.shape[k] = 1
BDim(a, b) == IF a = 1 THEN b ELSE a
BIdx(n, i) == IF n = 1 THEN 1 ELSE i
EW(op(_, _), A, B) ==
    Mk(BDim(A.shape[1], B.shape[1]), BDim(A.shape[2], B.shape[2]),
       LAMBDA i, j : op(A.val[BIdx(A.shape[1], i)][BIdx(A.shape[2], j)],
                        B.val[BIdx(B.shape[1], i)][BIdx(B.shape[2], j)]))
TAdd(A, B) == EW(RAdd, A, B)
TMul(A, B) == EW(RMul, A, B)
Map(f(_), A) == Mk(A.shape[1], A.shape[2], LAMBDA i, j : f(A.val[i][j]))
\* 1.0 - z
OneMinus(A) == Map(LAMBDA x : RSub(ROne, x), A)
Sigmoid(A) == Map(SigmoidS, A)

gen_non_linearity(A, non_linearity) ==
    Map(LAMBDA x : NonLinS(x, non_linearity), A)

(***************************************************************************)
(* The program state.                                                      *)
(*   cell       the configuration __init__ stores                          *)
(*   store      the variable scope: name -> tensor, for each variable      *)
(*              get_variable has created                                   *)
(*   attrs      the attributes call has bound on the cell (self.W, ...):   *)
(*              attribute name -> name in the store                        *)
(*   variables  cell.variables: the created variables in creation order    *)
(*   inputs, state      the arguments of the last call that returned       *)
(*   output, new_state  the pair the last returning call returned          *)
(*   lastOp     "init", "call" (returned), "raise" (the call raised) or    *)
(*              "assign"; nCalls counts the calls                          *)
(*   draw       what the random initializers of this graph draw            *)
(*                                                                         *)
(* An EMI model (EMI_FastRNN, EMI_FastGRNN):                               *)
(*   emi          the configuration its __init__ stores, and self.graph    *)
(*   graphCreated, varList, modelOutput, assignOps   its fields            *)
(*   globalGraph  the module global named graph that addBaseAssignOps      *)
(*                reads: None when the name is unbound (rnn.py binds none) *)
(*   initVarList  the argument of the last addBaseAssignOps                *)
(*   emiOp        the last operation on the model, what it raised, and the *)
(*                number of operations so far                              *)
(*                                                                         *)
(* One application of gen_non_linearity: its arguments nlA and nlName and   *)
(* its result nlResult (NoTensor before it has returned).                  *)
(*                                                                         *)
(* X is the argument of the last __call__ of the model.                    *)
(*                                                                         *)
(* A graph is named by the configuration of the model that built it;      *)
(* TensorsOf gives its tensors.  A value that may be None is None or a     *)
(* one-element tuple.                                                      *)
(***************************************************************************)
VARIABLES cell, store, attrs, variables, inputs, state, output, new_state,
          lastOp, nCalls, draw,
          emi, graphCreated, varList, modelOutput, assignOps, globalGraph,
          initVarList, emiOp, X,
          nlA, nlName, nlResult,
          dp, dpGraph, dpSess, dpOp

cellVars == <<cell, store, attrs, variables, inputs, state, output,
              new_state, lastOp, nCalls, draw>>
emiVars == <<emi, graphCreated, varList, modelOutput, assignOps, globalGraph,
             initVarList, emiOp, X>>
nlVars == <<nlA, nlName, nlResult>>
dpVars == <<dp, dpGraph, dpSess, dpOp>>
vars == <<cellVars, emiVars, nlVars, dpVars>>

NoTensor == [shape |-> <<>>, val |-> <<>>]
EmptyMap == [n \in {} |-> NoTensor]
EmptyBind == [n \in {} |-> ""]

(***************************************************************************)
(* Initializers.  random_normal_initializer draws the entries at creation: *)
(* the draw is an input of the model, one of Seeds, fixed with the graph,  *)
(* which fixes every entry; k tells the variables of one draw apart.       *)
(***************************************************************************)
Seeds == {0, 1}
random_normal_initializer(seed, k, shape) ==
    Mk(shape[1], shape[2],
       LAMBDA i, j : RInt(((seed + k + 2 * i + j) % 3) - 1))
constant_initializer(value, shape) ==
    Mk(shape[1], shape[2], LAMBDA i, j : value)

(***************************************************************************)
(* vs.get_variable inside the cell's variable scope, as RNNCell.__call__   *)
(* runs call: the first request of a name creates the variable (appended   *)
(* to cell.variables), a later one returns the existing variable, and a    *)
(* request whose shape differs from the existing variable's raises.        *)
(* m is the running machine [store, attrs, variables, ok]; ok turns FALSE  *)
(* when an operation raises, and everything after it is skipped.           *)
(***************************************************************************)
\* Faulty variant: a request whose shape differs replaces the variable.
get_variable_resizes(m, attr, name, shape, init) ==
    IF ~m.ok THEN m
    ELSE IF name \in DOMAIN m.store /\ m.store[name].shape = shape
    THEN [m EXCEPT !.attrs = (attr :> name) @@ @]
    ELSE [m EXCEPT !.store = (name :> init) @@ @,
                   !.attrs = (attr :> name) @@ @,
                   !.variables = IF name \in DOMAIN m.store THEN @
                                 ELSE Append(@, name)]

\* Faulty variant: every request runs the initializer again.
get_variable_reinitializes(m, attr, name, shape, init) ==
    IF ~m.ok THEN m
    ELSE IF name \in DOMAIN m.store
    THEN IF m.store[name].shape = shape
         THEN [m EXCEPT !.store = (name :> init) @@ @,
                        !.attrs = (attr :> name) @@ @]
         ELSE [m EXCEPT !.ok = FALSE]
    ELSE [m EXCEPT !.store = (name :> init) @@ @,
                   !.attrs = (attr :> name) @@ @,
                   !.variables = Append(@, name)]

get_variable(m, attr, name, shape, init) ==
    IF ~m.ok THEN m
    ELSE IF name \in DOMAIN m.store
    THEN IF m.store[name].shape = shape
         THEN [m EXCEPT !.attrs = (attr :> name) @@ @]
         ELSE [m EXCEPT !.ok = FALSE]
    ELSE [m EXCEPT !.store = (name :> init) @@ @,
                   !.attrs = (attr :> name) @@ @,
                   !.variables = Append(@, name)]

\* An operation of the graph that raises unless cond holds.
Requires(m, cond) == IF m.ok /\ ~cond THEN [m EXCEPT !.ok = FALSE] ELSE m

(***************************************************************************)
(* The input and recurrent projections, shared by both cells               *)
(* (rnn.py 87-127 and 226-266).                                            *)
(***************************************************************************)
\* The variables of the input projection, then its first matmul.
WVars(c, m, x, seed) ==
    IF c.wRank = None
    THEN Requires(
           get_variable(m, "W", "W", <<LastDim(x), c.hidden_size>>,
               random_normal_initializer(seed, 0,
                                         <<LastDim(x), c.hidden_size>>)),
           MatMulOk(x, [shape |-> <<LastDim(x), c.hidden_size>>]))
    ELSE Requires(
           get_variable(
             get_variable(m, "W1", "W1", <<LastDim(x), c.wRank[1]>>,
                 random_normal_initializer(seed, 1, <<LastDim(x), c.wRank[1]>>)),
             "W2", "W2", <<c.wRank[1], c.hidden_size>>,
             random_normal_initializer(seed, 2, <<c.wRank[1], c.hidden_size>>)),
           MatMulOk(x, [shape |-> <<LastDim(x), c.wRank[1]>>]))

\* Faulty variant: the low-rank branch leaves out the second factor.
wComp_firstFactorOnly(c, st, x) ==
    IF c.wRank = None
    THEN MatMul(x, st["W"])
    ELSE MatMul(x, st["W1"])

\* Faulty variant: the input is added without its projection.
wComp_inputUnprojected(c, st, x) == x

wComp(c, st, x) ==
    IF c.wRank = None
    THEN MatMul(x, st["W"])
    ELSE MatMul(MatMul(x, st["W1"]), st["W2"])

\* The variables of the recurrent projection, then its first matmul.
UVars(c, m, h, seed) ==
    IF c.uRank = None
    THEN Requires(
           get_variable(m, "U", "U", <<c.hidden_size, c.hidden_size>>,
               random_normal_initializer(seed, 3,
                                         <<c.hidden_size, c.hidden_size>>)),
           MatMulOk(h, [shape |-> <<c.hidden_size, c.hidden_size>>]))
    ELSE Requires(
           get_variable(
             get_variable(m, "U1", "U1", <<c.hidden_size, c.uRank[1]>>,
                 random_normal_initializer(seed, 4,
                                           <<c.hidden_size, c.uRank[1]>>)),
             "U2", "U2", <<c.uRank[1], c.hidden_size>>,
             random_normal_initializer(seed, 5, <<c.uRank[1], c.hidden_size>>)),
           MatMulOk(h, [shape |-> <<c.hidden_size, c.uRank[1]>>]))

uComp(c, st, h) ==
    IF c.uRank = None
    THEN MatMul(h, st["U"])
    ELSE MatMul(MatMul(h, st["U1"]), st["U2"])

(***************************************************************************)
(* FastGRNNCell.call (rnn.py 84-156).                                      *)
(***************************************************************************)
\* Faulty variant: the gate is not complemented in the candidate's coefficient.
FastGRNN_new_h_gateNotComplemented(z, h, cand, zeta, nu) ==
    TAdd(TMul(z, h),
         TMul(TAdd(TMul(Sigmoid(zeta), z), Sigmoid(nu)), cand))

\* Faulty variant: the previous state is carried over without the gate.
FastGRNN_new_h_stateUngated(z, h, cand, zeta, nu) ==
    TAdd(h, TMul(TAdd(TMul(Sigmoid(zeta), OneMinus(z)), Sigmoid(nu)), cand))

\* new_h = z * state + (sigmoid(zeta) * (1.0 - z) + sigmoid(nu)) * c
FastGRNN_new_h(z, h, cand, zeta, nu) ==
    TAdd(TMul(z, h),
         TMul(TAdd(TMul(Sigmoid(zeta), OneMinus(z)), Sigmoid(nu)), cand))

\* return new_h, new_h
FastGRNN_return(new_h) == <<new_h, new_h>>

FastGRNNCell_call(c, m0, x, h, seed) ==
    LET m1 == WVars(c, m0, x, seed)
        m2 == UVars(c, m1, h, seed)
        m3 == get_variable(
                get_variable(m2, "zeta", "zeta", <<1, 1>>,
                             constant_initializer(c.init1, <<1, 1>>)),
                "nu", "nu", <<1, 1>>, constant_initializer(c.init2, <<1, 1>>))
        wC == wComp(c, m3.store, x)
        uC == uComp(c, m3.store, h)
        m4 == IF m3.ok /\ ~BroadcastOk(wC, uC) THEN [m3 EXCEPT !.ok = FALSE]
              ELSE m3
        pre_comp == TAdd(wC, uC)
        m5 == get_variable(m4, "bias_gate", "B_g", <<1, c.hidden_size>>,
                           constant_initializer(ROne, <<1, c.hidden_size>>))
        z == gen_non_linearity(TAdd(pre_comp, m5.store["B_g"]),
                               c.gate_non_linearity)
        m6 == get_variable(m5, "bias_update", "B_h", <<1, c.hidden_size>>,
                           constant_initializer(ROne, <<1, c.hidden_size>>))
        cand == gen_non_linearity(TAdd(pre_comp, m6.store["B_h"]),
                                  c.update_non_linearity)
    IN  [m   |-> m6,
         ret |-> IF m6.ok
                 THEN FastGRNN_return(
                        FastGRNN_new_h(z, h, cand, m6.store["zeta"],
                                       m6.store["nu"]))
                 ELSE <<NoTensor, NoTensor>>]

(***************************************************************************)
(* FastRNNCell.call (rnn.py 223-288).                                      *)
(***************************************************************************)
\* Faulty variant: alpha and beta change places.
FastRNN_new_h_alphaBetaSwapped(h, cand, alpha, beta) ==
    TAdd(TMul(Sigmoid(alpha), h), TMul(Sigmoid(beta), cand))

\* Faulty variant: alpha and beta are used as they are, without the sigmoid.
FastRNN_new_h_rawScalars(h, cand, alpha, beta) ==
    TAdd(TMul(beta, h), TMul(alpha, cand))

\* new_h = sigmoid(beta) * state + sigmoid(alpha) * c
FastRNN_new_h(h, cand, alpha, beta) ==
    TAdd(TMul(Sigmoid(beta), h), TMul(Sigmoid(alpha), cand))

\* Faulty variant: the output is a readout of the state, not the state.
FastRNN_return_readout(new_h) == <<Sigmoid(new_h), new_h>>

\* return new_h, new_h
FastRNN_return(new_h) == <<new_h, new_h>>

FastRNNCell_call(c, m0, x, h, seed) ==
    LET m1 == WVars(c, m0, x, seed)
        m2 == UVars(c, m1, h, seed)
        m3 == get_variable(
                get_variable(m2, "alpha", "alpha", <<1, 1>>,
                             constant_initializer(c.init1, <<1, 1>>)),
                "beta", "beta", <<1, 1>>,
                constant_initializer(c.init2, <<1, 1>>))
        wC == wComp(c, m3.store, x)
        uC == uComp(c, m3.store, h)
        m4 == IF m3.ok /\ ~BroadcastOk(wC, uC) THEN [m3 EXCEPT !.ok = FALSE]
              ELSE m3
        pre_comp == TAdd(wC, uC)
        m5 == get_variable(m4, "bias_update", "B_h", <<1, c.hidden_size>>,
                           constant_initializer(ROne, <<1, c.hidden_size>>))
        cand == gen_non_linearity(TAdd(pre_comp, m5.store["B_h"]),
                                  c.update_non_linearity)
    IN  [m   |-> m5,
         ret |-> IF m5.ok
                 THEN FastRNN_return(
                        FastRNN_new_h(h, cand, m5.store["alpha"],
                                      m5.store["beta"]))
                 ELSE <<NoTensor, NoTensor>>]

(***************************************************************************)
(* getVars of the two cells (rnn.py 158-173 and 290-305): the tensors the  *)
(* attributes name, in the order the method appends them.  Reading an      *)
(* attribute that call has not bound yet raises: then there is no list.    *)
(***************************************************************************)
WAttrs(c) == IF c.num_weight_matrices[1] = 1 THEN <<"W">> ELSE <<"W1", "W2">>
\* Faulty variant: of the two recurrent factors only the first is appended.
UAttrs_firstFactorOnly(c) ==
    IF c.num_weight_matrices[2] = 1 THEN <<"U">> ELSE <<"U1">>
UAttrs(c) == IF c.num_weight_matrices[2] = 1 THEN <<"U">> ELSE <<"U1", "U2">>

\* Faulty variant: the scalars come before the biases.
FastGRNNCell_getVars_scalarsFirst(c) ==
    WAttrs(c) \o UAttrs(c) \o <<"zeta", "nu">> \o <<"bias_gate", "bias_update">>

FastGRNNCell_getVars(c) ==
    WAttrs(c) \o UAttrs(c) \o <<"bias_gate", "bias_update">> \o <<"zeta", "nu">>

FastRNNCell_getVars(c) ==
    WAttrs(c) \o UAttrs(c) \o <<"bias_update">> \o <<"alpha", "beta">>

getVarsAttrs(c) ==
    IF c.cellType = "FastGRNN" THEN FastGRNNCell_getVars(c)
    ELSE FastRNNCell_getVars(c)

getVarsRaises(c, at) == \E i \in 1..Len(getVarsAttrs(c)) :
                            getVarsAttrs(c)[i] \notin DOMAIN at
\* The list getVars returns: the store names of the variables, in order.
getVars(c, at) == [i \in 1..Len(getVarsAttrs(c)) |-> at[getVarsAttrs(c)[i]]]

(***************************************************************************)
(* Construction (rnn.py 38-54 and 182-196): __init__ stores the            *)
(* configuration and counts the weight matrices; it requests no variable.  *)
(***************************************************************************)
\* Faulty variant: the scalars are created at construction.
FastGRNNCell_init_eager(hidden_size, gate_non_linearity, update_non_linearity, wRank, uRank, zetaInit, nuInit) ==
    [cfg |-> [cellType |-> "FastGRNN",
              hidden_size |-> hidden_size,
              gate_non_linearity |-> gate_non_linearity,
              update_non_linearity |-> update_non_linearity,
              num_weight_matrices |->
                  <<IF wRank # None THEN 2 ELSE 1,
                    IF uRank # None THEN 2 ELSE 1>>,
              wRank |-> wRank, uRank |-> uRank,
              init1 |-> zetaInit, init2 |-> nuInit],
     store |-> ("zeta" :> constant_initializer(zetaInit, <<1, 1>>))
               @@ ("nu" :> constant_initializer(nuInit, <<1, 1>>)),
     attrs |-> ("zeta" :> "zeta") @@ ("nu" :> "nu"),
     variables |-> <<"zeta", "nu">>]

FastGRNNCell_init(hidden_size, gate_non_linearity, update_non_linearity, wRank, uRank, zetaInit, nuInit) ==
    [cfg |-> [cellType |-> "FastGRNN",
              hidden_size |-> hidden_size,
              gate_non_linearity |-> gate_non_linearity,
              update_non_linearity |-> update_non_linearity,
              num_weight_matrices |->
                  <<IF wRank # None THEN 2 ELSE 1,
                    IF uRank # None THEN 2 ELSE 1>>,
              wRank |-> wRank, uRank |-> uRank,
              init1 |-> zetaInit, init2 |-> nuInit],
     store |-> EmptyMap, attrs |-> EmptyBind, variables |-> <<>>]

FastRNNCell_init(hidden_size, update_non_linearity, wRank, uRank, alphaInit, betaInit) ==
    [cfg |-> [cellType |-> "FastRNN",
              hidden_size |-> hidden_size,
              gate_non_linearity |-> "",
              update_non_linearity |-> update_non_linearity,
              num_weight_matrices |->
                  <<IF wRank # None THEN 2 ELSE 1,
                    IF uRank # None THEN 2 ELSE 1>>,
              wRank |-> wRank, uRank |-> uRank,
              init1 |-> alphaInit, init2 |-> betaInit],
     store |-> EmptyMap, attrs |-> EmptyBind, variables |-> <<>>]

(***************************************************************************)
(* The constructor arguments and call arguments the model draws from.      *)
(***************************************************************************)
HiddenSizes == 1..MaxHidden
Ranks == {None} \cup {<<r>> : r \in 1..MaxRank}
NonLinNames == {"tanh", "sigmoid", "relu", "quantTanh", "quantSigm", "linear"}
\* (gate, update) pairs: every name is used in both places.
NonLinPairs == {<<"sigmoid", "tanh">>, <<"tanh", "sigmoid">>,
                <<"relu", "quantTanh">>, <<"quantTanh", "relu">>,
                <<"quantSigm", "linear">>, <<"linear", "quantSigm">>}
\* (zetaInit, nuInit) and (alphaInit, betaInit): the defaults.
ZetaNuInits == {<<RInt(1), RInt(-4)>>}
AlphaBetaInits == {<<RInt(-3), RInt(3)>>}

Cells ==
    {FastGRNNCell_init(hs, nl[1], nl[2], wr, ur, zn[1], zn[2]) :
        hs \in HiddenSizes, nl \in NonLinPairs, wr \in Ranks, ur \in Ranks,
        zn \in ZetaNuInits}
    \cup
    {FastRNNCell_init(hs, nl, wr, ur, ab[1], ab[2]) :
        hs \in HiddenSizes, nl \in NonLinNames, wr \in Ranks, ur \in Ranks,
        ab \in AlphaBetaInits}

\* A 2-D sample tensor, fixed by its shape and k (the calls so far).
Sample(seed, shape) ==
    Mk(shape[1], shape[2], LAMBDA i, j : RInt(((seed + i + 2 * j) % 3) - 1))
InputShapes == {<<1, 2>>, <<2, 1>>}
\* Inputs: 2-D samples, and a 1-D and a 3-D tensor.
Inputs(seed) == {Sample(seed, sh) : sh \in InputShapes}
InputsNot2D ==
    {[shape |-> <<2>>, val |-> <<>>], [shape |-> <<1, 2, 2>>, val |-> <<>>]}
Batch(x) == x.shape[1]
ZeroState(c, x) == constant_initializer(RZero, <<Batch(x), c.hidden_size>>)
\* States.  Until a call has returned: the zero state, a sample, and a
\* sample of one more row than the input.  From then on the driver feeds
\* back the state the last call returned.  Always: a state one unit too
\* wide.
States(c, x, seed) ==
    {constant_initializer(RZero, <<Batch(x), c.hidden_size + 1>>)}
    \cup (IF new_state = NoTensor
          THEN {ZeroState(c, x),
                Sample(seed + 1, <<Batch(x), c.hidden_size>>),
                Sample(seed, <<Batch(x) + 1, c.hidden_size>>)}
          ELSE {new_state})

(***************************************************************************)
(* The specification of one cell.  There is no EMI model in it.            *)
(***************************************************************************)
NoActivation == nlA = NoTensor /\ nlName = "" /\ nlResult = NoTensor
\* No data pipeline has been constructed.
NoPipeline ==
    /\ dp = [kind |-> "none"]
    /\ dpGraph = [created |-> 0, nextX |-> <<>>, nextY |-> <<>>]
    /\ dpSess = [runs |-> 0, iterator |-> <<>>]
    /\ dpOp = [op |-> "none", raised |-> "none", n |-> 0]

NoModel ==
    /\ emi = [kind |-> "none"]
    /\ graphCreated = FALSE
    /\ varList = <<>>
    /\ modelOutput = None
    /\ assignOps = <<>>
    /\ globalGraph = None
    /\ initVarList = None
    /\ emiOp = [op |-> "none", raised |-> "none", n |-> 0, steps |-> <<>>]
    /\ X = NoTensor

Init ==
    \E o \in Cells :
        /\ cell = o.cfg
        /\ store = o.store
        /\ attrs = o.attrs
        /\ variables = o.variables
        /\ inputs = NoTensor /\ state = NoTensor
        /\ output = NoTensor /\ new_state = NoTensor
        /\ lastOp = "init"
        /\ nCalls = 0
        /\ draw \in Seeds
        /\ NoModel
        /\ NoActivation
        /\ NoPipeline

\* One call of the cell: the whole of call, up to its return or its raise.
Called(r, x, h) ==
    /\ store' = r.m.store
    /\ attrs' = r.m.attrs
    /\ variables' = r.m.variables
    /\ IF r.m.ok
       THEN /\ inputs' = x /\ state' = h
            /\ output' = r.ret[1] /\ new_state' = r.ret[2]
            /\ lastOp' = "call"
       ELSE /\ UNCHANGED <<inputs, state, output, new_state>>
            /\ lastOp' = "raise"
    /\ nCalls' = nCalls + 1
    /\ UNCHANGED <<cell, draw>>
    /\ UNCHANGED <<emiVars, nlVars, dpVars>>

Machine == [store |-> store, attrs |-> attrs, variables |-> variables,
            ok |-> TRUE]

StepFastGRNN ==
    /\ cell.cellType = "FastGRNN"
    /\ nCalls < MaxSteps
    /\ \/ \E x \in Inputs(nCalls) : \E h \in States(cell, x, nCalls) :
              Called(FastGRNNCell_call(cell, Machine, x, h, draw), x, h)
       \/ \E x \in InputsNot2D :
              Called(FastGRNNCell_call(cell, Machine, x, ZeroState(cell, x),
                                      draw),
                     x, ZeroState(cell, x))

StepFastRNN ==
    /\ cell.cellType = "FastRNN"
    /\ nCalls < MaxSteps
    /\ \/ \E x \in Inputs(nCalls) : \E h \in States(cell, x, nCalls) :
              Called(FastRNNCell_call(cell, Machine, x, h, draw), x, h)
       \/ \E x \in InputsNot2D :
              Called(FastRNNCell_call(cell, Machine, x, ZeroState(cell, x),
                                      draw),
                     x, ZeroState(cell, x))

(***************************************************************************)
(* The external optimizer or assignment step: it gives every variable of   *)
(* the store a new value of the same shape.  It runs after a forward pass. *)
(***************************************************************************)
Assigned(T) ==
    Mk(T.shape[1], T.shape[2],
       LAMBDA i, j : RInt(((i + j + T.shape[2] + 2) % 3) - 1))

ExternalAssign ==
    /\ lastOp = "call"
    /\ store' = [n \in DOMAIN store |-> Assigned(store[n])]
    /\ lastOp' = "assign"
    /\ UNCHANGED <<cell, attrs, variables, inputs, state, output, new_state,
                   nCalls, draw>>
    /\ UNCHANGED <<emiVars, nlVars, dpVars>>

Next == StepFastGRNN \/ StepFastRNN \/ ExternalAssign

Spec == Init /\ [][Next]_vars

(***************************************************************************)
(* EMI_FastRNN and EMI_FastGRNN (rnn.py 736-901 and 995-1167): the restore *)
(* and assign code.  A tensor handle is [name, shape]; the names are the   *)
(* last component of the full names in the source                          *)
(* ("rnn/fast_grnn_cell/EMI-FastGRNN-Cell/FastGRNNcell/W:0" is "W").       *)
(***************************************************************************)
MaxOps == 3
\* The sub-instances of a bag.
MaxSub == 2

\* __init__ (740-763, 999-1024): the configuration and the empty fields.
EMI_FastGRNN_init(numSubinstance, numHidden, numTimeSteps, numFeats, graph, wRank, uRank) ==
    [kind |-> "FastGRNN", numSubinstance |-> numSubinstance,
     numHidden |-> numHidden, numTimeSteps |-> numTimeSteps,
     numFeats |-> numFeats,
     graph |-> graph, gate_non_linearity |-> "sigmoid",
     update_non_linearity |-> "tanh", wRank |-> wRank, uRank |-> uRank,
     init1 |-> RInt(1), init2 |-> RInt(-4)]

EMI_FastRNN_init(numSubinstance, numHidden, numTimeSteps, numFeats, graph, wRank, uRank) ==
    [kind |-> "FastRNN", numSubinstance |-> numSubinstance,
     numHidden |-> numHidden, numTimeSteps |-> numTimeSteps,
     numFeats |-> numFeats,
     graph |-> graph, gate_non_linearity |-> "sigmoid",
     update_non_linearity |-> "tanh", wRank |-> wRank, uRank |-> uRank,
     init1 |-> RInt(-3), init2 |-> RInt(3)]

\* The cell _createBaseGraph constructs (781-782, 1042-1043).
EMI_cell(e) ==
    IF e.kind = "FastGRNN"
    THEN FastGRNNCell_init(e.numHidden, e.gate_non_linearity,
                           e.update_non_linearity, e.wRank, e.uRank,
                           e.init1, e.init2)
    ELSE FastRNNCell_init(e.numHidden, e.update_non_linearity, e.wRank,
                          e.uRank, e.init1, e.init2)

\* That cell after the first step of static_rnn (789-790, 1050-1051), on
\* one row of numFeats features and the zero state.
EMI_cellStepped(e) ==
    LET o == EMI_cell(e)
        m == [store |-> o.store, attrs |-> o.attrs,
              variables |-> o.variables, ok |-> TRUE]
        x == Sample(0, <<1, e.numFeats>>)
        h == ZeroState(o.cfg, x)
    IN  IF e.kind = "FastGRNN" THEN FastGRNNCell_call(o.cfg, m, x, h, 0).m
        ELSE FastRNNCell_call(o.cfg, m, x, h, 0).m

WNames(e) == IF e.wRank = None THEN <<"W">> ELSE <<"W1", "W2">>
UNames(e) == IF e.uRank = None THEN <<"U">> ELSE <<"U1", "U2">>
\* The names the restore and the assign code look up last (837-843,
\* 888-893, 1098-1106, 1151-1158); and a faulty order, the biases before
\* the scalars.
EMI_FastGRNN_tail_biasesFirst == <<"B_g", "B_h", "zeta", "nu">>
EMI_FastGRNN_tail == <<"zeta", "nu", "B_g", "B_h">>
EMI_FastRNN_tail == <<"alpha", "beta", "B_h">>
EMI_tail(e) ==
    IF e.kind = "FastGRNN" THEN EMI_FastGRNN_tail ELSE EMI_FastRNN_tail

\* The shape the cell requests for the variable of a name (90-151,
\* 229-283), on inputs of numFeats features.
VariableShape(e, n) ==
    CASE n = "W"  -> <<e.numFeats, e.numHidden>>
      [] n = "W1" -> <<e.numFeats, e.wRank[1]>>
      [] n = "W2" -> <<e.wRank[1], e.numHidden>>
      [] n = "U"  -> <<e.numHidden, e.numHidden>>
      [] n = "U1" -> <<e.numHidden, e.uRank[1]>>
      [] n = "U2" -> <<e.uRank[1], e.numHidden>>
      [] n \in {"B_g", "B_h"} -> <<1, e.numHidden>>
      [] OTHER -> <<1, 1>>

\* The graph a model of configuration e builds, and the tensors in it, from
\* names to shapes: the cell's variables and the output tensor (797, 1058).
GraphOf(e) == [e EXCEPT !.graph = None]
TensorsOf(graph) ==
    LET names == WNames(graph) \o UNames(graph) \o EMI_tail(graph)
    IN  [n \in {names[i] : i \in 1..Len(names)} \cup {"bag-output"} |->
            IF n = "bag-output" THEN <<graph.numHidden>>
            ELSE VariableShape(graph, n)]

Handle(g, n) == [name |-> n, shape |-> g[n]]
Handles(g, names) == [i \in 1..Len(names) |-> Handle(g, names[i])]

\* The name of the variable call binds to an attribute (90-151, 229-283).
BoundName(attr) ==
    CASE attr = "bias_gate" -> "B_g"
      [] attr = "bias_update" -> "B_h"
      [] OTHER -> attr

\* The list getVars of the model's cell returns, as handles.
GetVarsList(e) ==
    LET l == getVarsAttrs(EMI_cell(e).cfg)
    IN  Handles(TensorsOf(GraphOf(e)), [i \in 1..Len(l) |-> BoundName(l[i])])

\* cell.variables (799, 1060), as handles: the variables in the order call
\* creates them.
CellVariablesList(e) ==
    Handles(TensorsOf(GraphOf(e)), WNames(e) \o UNames(e) \o EMI_tail(e))

InGraph(g, names) == \A i \in 1..Len(names) : names[i] \in DOMAIN g

\* _restoreBaseGraph (806-843, 1067-1106) with the fields r = [varList,
\* output, raised] and self.graph = sg, on a graph of tensors g.  A lookup
\* of a name the graph does not hold raises KeyError, and what was stored
\* before it stays.
restoreBaseGraph(e, sg, created, r, g) ==
    IF created \/ sg = None
    THEN [r EXCEPT !.raised = "AssertionError"]
    ELSE
    IF "bag-output" \notin DOMAIN g
    THEN [r EXCEPT !.raised = "KeyError"]
    ELSE LET r1 == [r EXCEPT !.output = <<Handle(g, "bag-output")>>] IN
    IF Len(r.varList) # 0
    THEN [r1 EXCEPT !.raised = "AssertionError"]
    ELSE IF ~InGraph(g, WNames(e))
    THEN [r1 EXCEPT !.raised = "KeyError"]
    ELSE LET r2 == [r1 EXCEPT !.varList = Handles(g, WNames(e))] IN
    IF ~InGraph(g, UNames(e))
    THEN [r2 EXCEPT !.raised = "KeyError"]
    ELSE LET r3 == [r2 EXCEPT !.varList = @ \o Handles(g, UNames(e))] IN
    IF ~InGraph(g, EMI_tail(e))
    THEN [r3 EXCEPT !.raised = "KeyError"]
    ELSE [r3 EXCEPT !.varList = @ \o Handles(g, EMI_tail(e))]

\* tf.assign(ref, value) (856, 1119): the shapes must agree.
AssignOk(g, name, value) == g[name] = value.shape

\* One section of addBaseAssignOps (852-868, 870-886, 888-901): the lookups
\* of its names in the global graph, the reads of initVarList from index,
\* the assigns, and the extend of assignOps.  a = [ops, index, raised]; gg
\* is None when the name graph is unbound, else <<its tensors>>.
assignSection(a, gg, l, names) ==
    IF a.raised # "none" THEN a
    ELSE IF gg = None THEN [a EXCEPT !.raised = "NameError"]
    ELSE IF ~InGraph(gg[1], names)
    THEN [a EXCEPT !.raised = "KeyError"]
    ELSE IF a.index + Len(names) > Len(l)
    THEN [a EXCEPT !.raised = "IndexError"]
    ELSE IF \E k \in 1..Len(names) :
                ~AssignOk(gg[1], names[k], l[a.index + k])
    THEN [a EXCEPT !.raised = "ValueError"]
    ELSE [a EXCEPT !.ops = @ \o [k \in 1..Len(names) |->
                                   [ref |-> names[k],
                                    value |-> l[a.index + k].name]],
                   !.index = @ + Len(names)]

\* addBaseAssignOps (849-901, 1112-1167) on the argument <<l>> or None.
addBaseAssignOps(e, ops, gg, arg) ==
    IF arg = None
    THEN [ops |-> ops, index |-> 0, raised |-> "AssertionError"]
    ELSE assignSection(
           assignSection(
             assignSection([ops |-> ops, index |-> 0, raised |-> "none"],
                           gg, arg[1], WNames(e)),
             gg, arg[1], UNames(e)),
           gg, arg[1], EMI_tail(e))

(***************************************************************************)
(* _createBaseGraph (rnn.py 765-804, 1026-1065) on a bag tensor X of shape *)
(* [bags, numSubinstance, numTimeSteps, numFeats], val[b][s][t][f].        *)
(***************************************************************************)
\* tf.reshape(X, [-1, numTimeSteps, numFeats]) and tf.unstack(x, axis=1):
\* one 2-D tensor per timestep, whose row (b - 1) * S + s is sub-instance s
\* of bag b.
reshape_unstack(T) ==
    [t \in 1..T.shape[3] |->
        Mk(T.shape[1] * T.shape[2], T.shape[4],
           LAMBDA r, f : T.val[((r - 1) \div T.shape[2]) + 1]
                              [((r - 1) % T.shape[2]) + 1][t][f])]

\* cell(input_, state) of the model's cell.
cell_call(c, m, x, h, seed) ==
    IF c.cellType = "FastGRNN" THEN FastGRNNCell_call(c, m, x, h, seed)
    ELSE FastRNNCell_call(c, m, x, h, seed)

\* Faulty variant: every step starts from the state the loop started with.
rnn_step_unchained(r, k) ==
    [m |-> k.m, outputs |-> Append(r.outputs, k.ret[1]), state |-> r.state]

\* One iteration of the loop of tf.nn.static_rnn, k being what the cell
\* returned: (output, state) = cell(input_, state); outputs.append(output).
rnn_step(r, k) ==
    [m |-> k.m, outputs |-> Append(r.outputs, k.ret[1]), state |-> k.ret[2]]

RECURSIVE rnn_loop(_, _, _, _, _)
rnn_loop(c, r, xs, t, seed) ==
    IF t > Len(xs) \/ ~r.m.ok THEN r
    ELSE rnn_loop(c, rnn_step(r, cell_call(c, r.m, xs[t], r.state, seed)),
                  xs, t + 1, seed)

\* tf.nn.static_rnn(cell, x, dtype): the loop over the inputs in list
\* order, from cell.zero_state.
static_rnn(c, m, xs, seed) ==
    rnn_loop(c, [m |-> m, outputs |-> <<>>, state |-> ZeroState(c, xs[1])],
             xs, 1, seed)

\* expand_dims(output, axis=1) of every output, concat along axis 1, and
\* reshape to [-1, numSubinstance, numTimeSteps, numHidden].
bag_output(outs, S, H) ==
    LET B == outs[1].shape[1] \div S
    IN  [shape |-> <<B, S, Len(outs), H>>,
         val |-> [b \in 1..B |-> [s \in 1..S |-> [t \in 1..Len(outs) |->
                    [j \in 1..H |-> outs[t].val[(b - 1) * S + s][j]]]]]]

\* cell.variables, as handles.
VariablesOf(m) ==
    [i \in 1..Len(m.variables) |->
        [name |-> m.variables[i], shape |-> m.store[m.variables[i]].shape]]

\* The end of _createBaseGraph (1052-1065), k being what static_rnn left:
\* the bag output, and varList extended by cell.variables.
baseGraphBuilt(e, r, k) ==
    IF ~k.m.ok
    THEN [r EXCEPT !.raised = "ValueError", !.store = k.m.store]
    ELSE [varList |-> r.varList \o VariablesOf(k.m),
          output |-> <<bag_output(k.outputs, e.numSubinstance, e.numHidden)>>,
          raised |-> "none",
          store |-> k.m.store]

\* The cell _createBaseGraph constructs, on the variables of the graph.
newCell(o, st) ==
    [store |-> st, attrs |-> o.attrs, variables |-> o.variables, ok |-> TRUE]

\* _createBaseGraph with the fields r = [varList, output, raised, store].
createBaseGraph(e, created, T, r, seed) ==
    IF created \/ Len(T.shape) # 4
    THEN [r EXCEPT !.raised = "AssertionError"]
    ELSE IF \/ T.shape[2] # e.numSubinstance
            \/ T.shape[3] # e.numTimeSteps
            \/ T.shape[4] # e.numFeats
    THEN [r EXCEPT !.raised = "AssertionError"]
    ELSE baseGraphBuilt(e, r,
           static_rnn(EMI_cell(e).cfg, newCell(EMI_cell(e), r.store),
                      reshape_unstack(T), seed))

(***************************************************************************)
(* The specification of one EMI model.  There is no separate cell in it.   *)
(***************************************************************************)
NoCell ==
    /\ cell = [cellType |-> "none"]
    /\ store = EmptyMap /\ attrs = EmptyBind /\ variables = <<>>
    /\ inputs = NoTensor /\ state = NoTensor
    /\ output = NoTensor /\ new_state = NoTensor
    /\ lastOp = "none" /\ nCalls = 0 /\ draw = 0

\* The configurations, without the graph.
Models ==
    {EMI_FastGRNN_init(MaxSub, hs, MaxSteps, nf, None, wr, ur) :
        hs \in HiddenSizes, nf \in HiddenSizes, wr \in Ranks, ur \in Ranks}
    \cup
    {EMI_FastRNN_init(MaxSub, hs, MaxSteps, nf, None, wr, ur) :
        hs \in HiddenSizes, nf \in HiddenSizes, wr \in Ranks, ur \in Ranks}

\* The graphs a model meets: the one a model of its own configuration
\* left, and the one its full-rank counterpart left.
Graphs(e) ==
    {<<GraphOf(e)>>,
     <<GraphOf([e EXCEPT !.wRank = None, !.uRank = None])>>}

\* The lists passed to addBaseAssignOps: in getVars order, in the order of
\* cell.variables, one element short, one element long; and None.
InitVarLists(e) ==
    LET l == GetVarsList(e)
    IN  {<<l>>, <<CellVariablesList(e)>>, <<SubSeq(l, 1, Len(l) - 1)>>,
         <<Append(l, l[1])>>, None}

InitEMI ==
    /\ NoCell
    /\ NoActivation
    /\ NoPipeline
    /\ \E o \in Models : \E g \in {None} \cup {<<GraphOf(o)>>} :
           emi = [o EXCEPT !.graph = g]
    /\ graphCreated = FALSE
    /\ varList = <<>>
    /\ modelOutput = None
    /\ assignOps = <<>>
    /\ globalGraph \in {None, <<GraphOf(emi)>>}
    /\ initVarList = None
    /\ emiOp = [op |-> "init", raised |-> "none", n |-> 0, steps |-> <<>>]
    /\ X = NoTensor

\* EMI_RNN.restoreFromGraph (513-522).  No class of rnn.py overrides
\* _restoreExtendedGraph (536-537), which raises NotImplementedError.
restoreFromGraph ==
    /\ emiOp.n < MaxOps
    /\ \E graph \in {None} \cup Graphs(emi) :
         LET r == restoreBaseGraph(
                    emi, graph, FALSE,
                    [varList |-> <<>>, output |-> None, raised |-> "none"],
                    IF graph = None THEN EmptyMap ELSE TensorsOf(graph[1]))
         IN  /\ graphCreated' = FALSE
             /\ varList' = r.varList
             /\ modelOutput' = r.output
             /\ assignOps' = <<>>
             /\ emi' = [emi EXCEPT !.graph = graph]
             /\ emiOp' = [op |-> "restoreFromGraph",
                          raised |-> IF r.raised = "none"
                                     THEN "NotImplementedError"
                                     ELSE r.raised,
                          n |-> emiOp.n + 1,
                          steps |-> IF r.raised = "none"
                                    THEN <<"_restoreBaseGraph",
                                           "_restoreExtendedGraph">>
                                    ELSE <<"_restoreBaseGraph">>]
    /\ UNCHANGED <<globalGraph, initVarList, X>>
    /\ UNCHANGED <<cellVars, nlVars, dpVars>>

EMI_addBaseAssignOps ==
    /\ emiOp.n < MaxOps
    /\ \E arg \in InitVarLists(emi) :
         LET gg == IF globalGraph = None THEN None
                   ELSE <<TensorsOf(globalGraph[1])>>
             a == addBaseAssignOps(emi, assignOps, gg, arg)
         IN  /\ assignOps' = a.ops
             /\ initVarList' = arg
             /\ emiOp' = [op |-> "addBaseAssignOps", raised |-> a.raised,
                          n |-> emiOp.n + 1, steps |-> <<>>]
    /\ UNCHANGED <<emi, graphCreated, varList, modelOutput, globalGraph, X>>
    /\ UNCHANGED <<cellVars, nlVars, dpVars>>

\* The bag tensors passed to __call__: one bag of the model's shape, one of
\* a timestep more, and a 3-D tensor.
BagSample(shape) ==
    [shape |-> shape,
     val |-> [b \in 1..shape[1] |-> [s \in 1..shape[2] |->
                [t \in 1..shape[3] |-> [f \in 1..shape[4] |->
                    RInt(((b + s + 2 * t + f) % 3) - 1)]]]]]
BagInputs(e) ==
    {BagSample(<<1, e.numSubinstance, e.numTimeSteps, e.numFeats>>),
     BagSample(<<1, e.numSubinstance, e.numTimeSteps + 1, e.numFeats>>),
     [shape |-> <<e.numSubinstance, e.numTimeSteps, e.numFeats>>,
      val |-> <<>>]}

\* A faulty extended step, entered although the base step has raised.
createExtendedGraph_evenAfterRaise(r) ==
    [r EXCEPT !.raised = "NotImplementedError",
              !.steps = Append(@, "_createExtendedGraph")]

\* _createExtendedGraph and _restoreExtendedGraph (530-537): no class of
\* rnn.py overrides them, and EMI_RNN's raise NotImplementedError.
\* r.steps lists the steps __call__ has entered; a base step that raised
\* ends the call.
createExtendedGraph(r) ==
    IF r.raised = "none"
    THEN [r EXCEPT !.raised = "NotImplementedError",
                   !.steps = Append(@, "_createExtendedGraph")]
    ELSE r
restoreExtendedGraph(r) ==
    IF r.raised = "none"
    THEN [r EXCEPT !.raised = "NotImplementedError",
                   !.steps = Append(@, "_restoreExtendedGraph")]
    ELSE r
\* The end of __call__ (510-511): assert self.graphCreated is True, then
\* return self.output.  No step assigns graphCreated.
callReturns(r, created) ==
    IF r.raised = "none" /\ ~created
    THEN [r EXCEPT !.raised = "AssertionError"]
    ELSE r

\* The fields __call__ on T leaves, r being the fields at its return or
\* raise.
CallLeaves(r, T) ==
    /\ store' = r.store
    /\ varList' = r.varList
    /\ modelOutput' = r.output
    /\ emiOp' = [op |-> "call", raised |-> r.raised, n |-> emiOp.n + 1,
                 steps |-> r.steps]
    /\ X' = T
    /\ UNCHANGED <<emi, graphCreated, assignOps, globalGraph, initVarList>>
    /\ UNCHANGED <<cell, attrs, variables, inputs, state, output, new_state,
                   lastOp, nCalls, draw>>
    /\ UNCHANGED <<nlVars, dpVars>>

\* The fields of the model a base-graph step works on.
Fields ==
    [varList |-> varList, output |-> modelOutput, raised |-> "none",
     store |-> store]
\* The step __call__ has entered, with the fields it leaves.
Entered(step, r) == [steps |-> <<step>>] @@ r

\* EMI_RNN.__call__ (498-511).  _createBaseGraph is drawn on a default
\* graph that holds no variable yet.
EMI_call ==
    /\ emiOp.n < MaxOps
    /\ \E T \in BagInputs(emi) :
         IF graphCreated
         THEN CallLeaves([steps |-> <<>>] @@
                         [Fields EXCEPT !.raised =
                             IF modelOutput = None THEN "AssertionError"
                             ELSE "none"], T)
         ELSE IF emi.graph = None
         THEN /\ DOMAIN store = {}
              /\ CallLeaves(
                   callReturns(
                     createExtendedGraph(
                       Entered("_createBaseGraph",
                               createBaseGraph(emi, graphCreated, T, Fields,
                                               draw))),
                     graphCreated), T)
         ELSE CallLeaves(
                callReturns(
                  restoreExtendedGraph(
                    Entered("_restoreBaseGraph",
                            [store |-> store] @@
                            restoreBaseGraph(
                              emi, emi.graph, graphCreated,
                              [varList |-> varList, output |-> modelOutput,
                               raised |-> "none"],
                              TensorsOf(emi.graph[1])))),
                  graphCreated), T)

NextEMI == restoreFromGraph \/ EMI_addBaseAssignOps \/ EMI_call

SpecEMI == InitEMI /\ [][NextEMI]_vars

\* The documented usage (322-332): the model is constructed and called.
NextCall == EMI_call

SpecCall == InitEMI /\ [][NextCall]_vars

(***************************************************************************)
(* The five EMI models and the parameter lists they hand out and take      *)
(* back: _restoreBaseGraph, getHyperParams and addBaseAssignOps of         *)
(* EMI_BasicLSTM (610-635), EMI_GRU (699-733), EMI_UGRNN (967-992),        *)
(* EMI_FastRNN (806-901) and EMI_FastGRNN (1067-1167).  The cells of the   *)
(* first three are TensorFlow's; of these models only the names and the    *)
(* shapes of the variables matter here.                                    *)
(***************************************************************************)
EMI_BasicLSTM_init(numSubinstance, numHidden, numTimeSteps, numFeats, graph) ==
    [kind |-> "BasicLSTM", numSubinstance |-> numSubinstance,
     numHidden |-> numHidden, numTimeSteps |-> numTimeSteps,
     numFeats |-> numFeats, graph |-> graph]
EMI_GRU_init(numSubinstance, numHidden, numTimeSteps, numFeats, graph) ==
    [kind |-> "GRU", numSubinstance |-> numSubinstance,
     numHidden |-> numHidden, numTimeSteps |-> numTimeSteps,
     numFeats |-> numFeats, graph |-> graph]
EMI_UGRNN_init(numSubinstance, numHidden, numTimeSteps, numFeats, graph) ==
    [kind |-> "UGRNN", numSubinstance |-> numSubinstance,
     numHidden |-> numHidden, numTimeSteps |-> numTimeSteps,
     numFeats |-> numFeats, graph |-> graph]

IsFast(e) == e.kind \in {"FastGRNN", "FastRNN"}

\* The names _restoreBaseGraph looks up, in the order it stores them in
\* varList (616-620, 705-712, 973-977).
EMI_BasicLSTM_names == <<"EMI-LSTM-Cell/kernel", "EMI-LSTM-Cell/bias">>
EMI_GRU_names ==
    <<"EMI-GRU-Cell/gates/kernel", "EMI-GRU-Cell/gates/bias",
      "EMI-GRU-Cell/candidate/kernel", "EMI-GRU-Cell/candidate/bias">>
EMI_UGRNN_names == <<"ugrnn_cell/kernel", "ugrnn_cell/bias">>
RestoreNames(e) ==
    CASE e.kind = "BasicLSTM" -> EMI_BasicLSTM_names
      [] e.kind = "GRU" -> EMI_GRU_names
      [] e.kind = "UGRNN" -> EMI_UGRNN_names
      [] OTHER -> WNames(e) \o UNames(e) \o EMI_tail(e)

\* The shapes of the kernels and biases: the input and the state side by
\* side, times the gates of the cell.
KernelShape(e, n) ==
    LET rows == e.numFeats + e.numHidden
        gates == CASE e.kind = "BasicLSTM" -> 4
                   [] n \in {"EMI-GRU-Cell/candidate/kernel",
                             "EMI-GRU-Cell/candidate/bias"} -> 1
                   [] OTHER -> 2
    IN  IF n \in {"EMI-LSTM-Cell/kernel", "EMI-GRU-Cell/gates/kernel",
                  "EMI-GRU-Cell/candidate/kernel", "ugrnn_cell/kernel"}
        THEN <<rows, gates * e.numHidden>>
        ELSE <<gates * e.numHidden>>

\* The tensors of the graph a model left, from names to shapes.
ModelTensors(graph) ==
    IF IsFast(graph) THEN TensorsOf(graph)
    ELSE LET names == RestoreNames(graph)
         IN  [n \in {names[i] : i \in 1..Len(names)} \cup {"bag-output"} |->
                IF n = "bag-output" THEN <<graph.numHidden>>
                ELSE KernelShape(graph, n)]

\* _restoreBaseGraph of EMI_BasicLSTM, EMI_GRU and EMI_UGRNN with the
\* fields r = [varList, output, raised]: the lookups come before the
\* assert on the length of varList.
restoreKernels(e, sg, created, r, g) ==
    IF created \/ sg = None
    THEN [r EXCEPT !.raised = "AssertionError"]
    ELSE IF "bag-output" \notin DOMAIN g
    THEN [r EXCEPT !.raised = "KeyError"]
    ELSE IF ~InGraph(g, RestoreNames(e))
    THEN [r EXCEPT !.output = <<Handle(g, "bag-output")>>,
                   !.raised = "KeyError"]
    ELSE IF Len(r.varList) # 0
    THEN [r EXCEPT !.output = <<Handle(g, "bag-output")>>,
                   !.raised = "AssertionError"]
    ELSE [r EXCEPT !.output = <<Handle(g, "bag-output")>>,
                   !.varList = Handles(g, RestoreNames(e))]

\* The length getHyperParams and addBaseAssignOps assert (624, 629, 716,
\* 721, 981, 986); EMI_FastRNN and EMI_FastGRNN assert none.
HyperParamsLength(e) == IF e.kind = "GRU" THEN 4 ELSE 2
AssignLength(e) == 2

\* getHyperParams (622-625, 714-717, 845-847, 979-982, 1108-1110)
getHyperParams(e, created, vl) ==
    IF ~created THEN [ret |-> None, raised |-> "AssertionError"]
    ELSE IF ~IsFast(e) /\ Len(vl) # HyperParamsLength(e)
    THEN [ret |-> None, raised |-> "AssertionError"]
    ELSE [ret |-> <<vl>>, raised |-> "none"]

\* The elements addBaseAssignOps reads from a list of length n: the last
\* two (632, 989), or the first four (727-728).
AssignReads(e, n) == IF e.kind = "GRU" THEN <<1, 2, 3, 4>> ELSE <<n - 1, n>>

\* addBaseAssignOps of EMI_BasicLSTM (627-635), EMI_GRU (719-733) and
\* EMI_UGRNN (984-992) on the argument <<l>> or None.
assignKernels(e, ops, gg, arg) ==
    LET names == RestoreNames(e) IN
    IF arg = None \/ Len(arg[1]) # AssignLength(e)
    THEN [ops |-> ops, raised |-> "AssertionError"]
    ELSE IF gg = None THEN [ops |-> ops, raised |-> "NameError"]
    ELSE IF ~InGraph(gg[1], names) THEN [ops |-> ops, raised |-> "KeyError"]
    ELSE LET reads == AssignReads(e, Len(arg[1])) IN
    IF \E k \in 1..Len(reads) : reads[k] \notin 1..Len(arg[1])
    THEN [ops |-> ops, raised |-> "IndexError"]
    ELSE IF \E k \in 1..Len(names) :
                ~AssignOk(gg[1], names[k], arg[1][reads[k]])
    THEN [ops |-> ops, raised |-> "ValueError"]
    ELSE [ops |-> ops \o [k \in 1..Len(names) |->
                            [ref |-> names[k],
                             value |-> arg[1][reads[k]].name]],
          raised |-> "none"]

\* The three methods of the model's own class.
restoreModel(e, sg, created, r, g) ==
    IF IsFast(e) THEN restoreBaseGraph(e, sg, created, r, g)
    ELSE restoreKernels(e, sg, created, r, g)
assignModel(e, ops, gg, arg) ==
    IF IsFast(e)
    THEN [ops |-> addBaseAssignOps(e, ops, gg, arg).ops,
          raised |-> addBaseAssignOps(e, ops, gg, arg).raised]
    ELSE assignKernels(e, ops, gg, arg)

AllModels ==
    Models
    \cup {EMI_BasicLSTM_init(MaxSub, hs, MaxSteps, nf, None) :
            hs \in HiddenSizes, nf \in HiddenSizes}
    \cup {EMI_GRU_init(MaxSub, hs, MaxSteps, nf, None) :
            hs \in HiddenSizes, nf \in HiddenSizes}
    \cup {EMI_UGRNN_init(MaxSub, hs, MaxSteps, nf, None) :
            hs \in HiddenSizes, nf \in HiddenSizes}

\* A model constructed on a restored graph; the name graph that
\* addBaseAssignOps reads is unbound or bound to that graph.
InitParams ==
    /\ NoCell
    /\ NoActivation
    /\ NoPipeline
    /\ \E o \in AllModels : emi = [o EXCEPT !.graph = <<GraphOf(o)>>]
    /\ graphCreated = FALSE
    /\ varList = <<>>
    /\ modelOutput = None
    /\ assignOps = <<>>
    /\ globalGraph \in {None, <<GraphOf(emi)>>}
    /\ initVarList = None
    /\ emiOp = [op |-> "init", raised |-> "none", n |-> 0, steps |-> <<>>]
    /\ X = NoTensor

\* restoreFromGraph (513-522) of any of the five models.
Params_restoreFromGraph ==
    /\ emiOp.n < MaxOps
    /\ \E graph \in {None, <<GraphOf(emi)>>} :
         LET r == restoreModel(
                    emi, graph, FALSE,
                    [varList |-> <<>>, output |-> None, raised |-> "none"],
                    IF graph = None THEN EmptyMap
                    ELSE ModelTensors(graph[1]))
         IN  /\ graphCreated' = FALSE
             /\ varList' = r.varList
             /\ modelOutput' = r.output
             /\ assignOps' = <<>>
             /\ emi' = [emi EXCEPT !.graph = graph]
             /\ emiOp' = [op |-> "restoreFromGraph",
                          raised |-> IF r.raised = "none"
                                     THEN "NotImplementedError"
                                     ELSE r.raised,
                          n |-> emiOp.n + 1,
                          steps |-> IF r.raised = "none"
                                    THEN <<"_restoreBaseGraph",
                                           "_restoreExtendedGraph">>
                                    ELSE <<"_restoreBaseGraph">>]
    /\ UNCHANGED <<globalGraph, initVarList, X>>
    /\ UNCHANGED <<cellVars, nlVars, dpVars>>

\* getHyperParams; what it returns is kept in initVarList.
Params_getHyperParams ==
    /\ emiOp.n < MaxOps
    /\ LET r == getHyperParams(emi, graphCreated, varList)
       IN  /\ initVarList' = IF r.raised = "none" THEN r.ret ELSE initVarList
           /\ emiOp' = [op |-> "getHyperParams", raised |-> r.raised,
                        n |-> emiOp.n + 1, steps |-> <<>>]
    /\ UNCHANGED <<emi, graphCreated, varList, modelOutput, assignOps,
                   globalGraph, X>>
    /\ UNCHANGED <<cellVars, nlVars, dpVars>>

\* addBaseAssignOps on self.varList, the list getHyperParams returns
\* (625, 717, 847, 982, 1110); on that list without its last two
\* elements; and on None.
Params_addBaseAssignOps ==
    /\ emiOp.n < MaxOps
    /\ \E arg \in {<<varList>>, <<SubSeq(varList, 1, Len(varList) - 2)>>,
                   None} :
         LET gg == IF globalGraph = None THEN None
                   ELSE <<ModelTensors(globalGraph[1])>>
             a == assignModel(emi, assignOps, gg, arg)
         IN  /\ assignOps' = a.ops
             /\ initVarList' = arg
             /\ emiOp' = [op |-> "addBaseAssignOps", raised |-> a.raised,
                          n |-> emiOp.n + 1, steps |-> <<>>]
    /\ UNCHANGED <<emi, graphCreated, varList, modelOutput, globalGraph, X>>
    /\ UNCHANGED <<cellVars, nlVars, dpVars>>

NextParams ==
    Params_restoreFromGraph \/ Params_getHyperParams
        \/ Params_addBaseAssignOps

SpecParams == InitParams /\ [][NextParams]_vars

(***************************************************************************)
(* The specification of gen_non_linearity (rnn.py 13-29) alone: a tensor   *)
(* of one row and two elements, each a multiple of 1/4 between -MaxGrid/4  *)
(* and MaxGrid/4, and a name; the one step applies the function.           *)
(***************************************************************************)
MaxGrid == 8
Grid == {Rat(n, 4) : n \in -MaxGrid..MaxGrid}
ActivationInputs == {Tensor2(<<<<x, y>>>>) : x \in Grid, y \in Grid}
\* The names: those the function tests, and three it does not.
ActivationNames == NonLinNames \cup {"", "Sigmoid"}

InitNL ==
    /\ NoCell
    /\ NoModel
    /\ NoPipeline
    /\ nlA \in ActivationInputs
    /\ nlName \in ActivationNames
    /\ nlResult = NoTensor

ApplyNonLinearity ==
    /\ nlResult = NoTensor
    /\ nlResult' = gen_non_linearity(nlA, nlName)
    /\ UNCHANGED <<nlA, nlName, cellVars, emiVars, dpVars>>

NextNL == ApplyNonLinearity

SpecNL == InitNL /\ [][NextNL]_vars

(***************************************************************************)
(* EMI_DataPipeline (308-476).  dp holds the object's fields, dpGraph the   *)
(* part of the default graph the pipeline writes (how many times its       *)
(* sub-graph was built, and the two collections), dpSess the session       *)
(* (how many times run was invoked on it, and what the iterator was last   *)
(* initialised with), dpOp the last method called, what it raised and      *)
(* what it returned.  A tensor of a graph is a record of its name, the     *)
(* graph it belongs to and its static shape; AnyDim is a dimension of      *)
(* size None.  A field that holds a list holds [list |-> the list].        *)
(***************************************************************************)
MaxFeats == 2
MaxBags == 2
NumOutput == 2
AnyDim == -1

EMI_DataPipeline_init(numSubinstance, numTimesteps, numFeats, numOutput, graph) ==
    [kind |-> "EMI_DataPipeline",
     numSubinstance |-> numSubinstance, numTimesteps |-> numTimesteps,
     numFeats |-> numFeats, numOutput |-> numOutput, graph |-> graph,
     graphCreated |-> FALSE,
     X |-> None, Y |-> None, batchSize |-> None, numEpochs |-> None,
     dataset_init |-> None, x_batch |-> None, y_batch |-> None]

DPTensor(name, g, shape) == [name |-> name, graph |-> g, shape |-> shape]

\* The placeholders' shapes (384, 388-389), and the shapes of a batch.
DimX(S, T, F) == <<AnyDim, S, T, F>>
DimY(S, O) == <<AnyDim, S, O>>

\* What __createGraph adds to a graph named g for a pipeline of these
\* sizes: four placeholders, the initializer, the two batch tensors.
InputGraph(g, S, T, F, O) ==
    [id |-> g,
     tensors |-> [n \in {"inpX:0", "inpY:0", "batch-size:0", "num-epochs:0"}
                    |-> DPTensor(n, g,
                                 IF n = "inpX:0" THEN DimX(S, T, F)
                                 ELSE IF n = "inpY:0" THEN DimY(S, O)
                                 ELSE <<>>)],
     ops |-> {"dataset-init"},
     nextX |-> <<DPTensor("IteratorGetNext:0", g, DimX(S, T, F))>>,
     nextY |-> <<DPTensor("IteratorGetNext:1", g, DimY(S, O))>>]

\* A faulty __createGraph: line 413 left out, graphCreated stays False.
DP_createGraph_flagNotSet(p, dg) ==
    IF p.graphCreated
    THEN [p |-> p, dg |-> dg, raised |-> "AssertionError"]
    ELSE LET k == dg.created + 1
             g == InputGraph(<<"default", k>>, p.numSubinstance,
                             p.numTimesteps, p.numFeats, p.numOutput)
         IN  [p |-> [p EXCEPT !.X = <<g.tensors["inpX:0"]>>,
                              !.Y = <<g.tensors["inpY:0"]>>,
                              !.batchSize = <<g.tensors["batch-size:0"]>>,
                              !.numEpochs = <<g.tensors["num-epochs:0"]>>,
                              !.dataset_init = <<[name |-> "dataset-init",
                                                  graph |-> g.id]>>,
                              !.x_batch = <<g.nextX[1]>>,
                              !.y_batch = <<g.nextY[1]>>],
              dg |-> [created |-> k,
                      nextX |-> Append(dg.nextX, g.nextX[1]),
                      nextY |-> Append(dg.nextY, g.nextY[1])],
              raised |-> "none"]

\* __createGraph (382-413): the k-th sub-graph built in the default graph.
DP_createGraph(p, dg) ==
    IF p.graphCreated
    THEN [p |-> p, dg |-> dg, raised |-> "AssertionError"]
    ELSE LET k == dg.created + 1
             g == InputGraph(<<"default", k>>, p.numSubinstance,
                             p.numTimesteps, p.numFeats, p.numOutput)
         IN  [p |-> [p EXCEPT !.X = <<g.tensors["inpX:0"]>>,
                              !.Y = <<g.tensors["inpY:0"]>>,
                              !.batchSize = <<g.tensors["batch-size:0"]>>,
                              !.numEpochs = <<g.tensors["num-epochs:0"]>>,
                              !.dataset_init = <<[name |-> "dataset-init",
                                                  graph |-> g.id]>>,
                              !.x_batch = <<g.nextX[1]>>,
                              !.y_batch = <<g.nextY[1]>>,
                              !.graphCreated = TRUE],
              dg |-> [created |-> k,
                      nextX |-> Append(dg.nextX, g.nextX[1]),
                      nextY |-> Append(dg.nextY, g.nextY[1])],
              raised |-> "none"]

\* The lookups of __restoreGraph by name, in its order (418-422).
RestoreLookups ==
    <<[field |-> "X", name |-> "inpX:0"],
      [field |-> "Y", name |-> "inpY:0"],
      [field |-> "batchSize", name |-> "batch-size:0"],
      [field |-> "numEpochs", name |-> "num-epochs:0"],
      [field |-> "dataset_init", name |-> "dataset-init"]>>

RECURSIVE restoreByName(_, _, _)
restoreByName(p, g, i) ==
    IF i > Len(RestoreLookups) THEN [p |-> p, raised |-> "none"]
    ELSE LET l == RestoreLookups[i]
         IN  IF l.field = "dataset_init"
             THEN IF l.name \in g.ops
                  THEN restoreByName(
                         [p EXCEPT ![l.field] = <<[name |-> l.name,
                                                   graph |-> g.id]>>],
                         g, i + 1)
                  ELSE [p |-> p, raised |-> "KeyError"]
             ELSE IF l.name \in DOMAIN g.tensors
                  THEN restoreByName(
                         [p EXCEPT ![l.field] = <<g.tensors[l.name]>>],
                         g, i + 1)
                  ELSE [p |-> p, raised |-> "KeyError"]

\* __restoreGraph (415-431).  Each field is assigned as it is looked up,
\* so a lookup that raises leaves the fields before it assigned.
DP_restoreGraph(p, graph) ==
    IF p.graphCreated THEN [p |-> p, raised |-> "AssertionError"]
    ELSE IF graph = None THEN [p |-> p, raised |-> "AttributeError"]
    ELSE LET g == graph[1]
             r == restoreByName(p, g, 1)
             q == [r.p EXCEPT !.x_batch = [list |-> g.nextX],
                              !.y_batch = [list |-> g.nextY]]
         IN  IF r.raised # "none" THEN r
             ELSE IF Len(g.nextX) # 1 \/ Len(g.nextY) # 1
             THEN [p |-> q, raised |-> "AssertionError"]
             ELSE [p |-> [q EXCEPT !.x_batch = <<g.nextX[1]>>,
                                   !.y_batch = <<g.nextY[1]>>,
                                   !.graphCreated = TRUE],
                   raised |-> "none"]

\* The pipelines, and the graphs handed to one: the graph a pipeline of
\* the same sizes saved, that graph without inpY, with the batch tensors
\* added twice to the collections, and the graph of a pipeline of one
\* more feature.
Pipelines ==
    {EMI_DataPipeline_init(S, MaxSteps, F, NumOutput, None) :
         S \in 1..MaxSub, F \in 1..MaxFeats}
SavedGraph(p) ==
    InputGraph("saved", p.numSubinstance, p.numTimesteps, p.numFeats,
               p.numOutput)
DPGraphs(p) ==
    LET g == SavedGraph(p)
    IN  {<<g>>,
         <<[g EXCEPT !.id = "noY",
                     !.tensors = [n \in DOMAIN g.tensors \ {"inpY:0"}
                                     |-> g.tensors[n]]]>>,
         <<[g EXCEPT !.id = "twice",
                     !.nextX = g.nextX \o g.nextX,
                     !.nextY = g.nextY \o g.nextY]>>,
         <<InputGraph("wider", p.numSubinstance, p.numTimesteps,
                      p.numFeats + 1, p.numOutput)>>}

InitDP ==
    /\ NoCell
    /\ NoModel
    /\ NoActivation
    /\ \E p \in Pipelines : \E g \in {None} \cup DPGraphs(p) :
           dp = [p EXCEPT !.graph = g]
    /\ dpGraph = [created |-> 0, nextX |-> <<>>, nextY |-> <<>>]
    /\ dpSess = [runs |-> 0, iterator |-> <<>>]
    /\ dpOp = [op |-> "init", raised |-> "none", n |-> 0, ret |-> None,
               x_data |-> <<>>, y_data |-> <<>>]

\* __call__ (433-441)
DP_call ==
    /\ dpOp.n < MaxOps
    /\ LET r == IF dp.graphCreated
                THEN [p |-> dp, dg |-> dpGraph, raised |-> "none"]
                ELSE IF dp.graph = None
                THEN DP_createGraph(dp, dpGraph)
                ELSE [p |-> DP_restoreGraph(dp, dp.graph).p,
                      dg |-> dpGraph,
                      raised |-> DP_restoreGraph(dp, dp.graph).raised]
       IN  /\ dp' = r.p
           /\ dpGraph' = r.dg
           /\ dpOp' = [op |-> "call", raised |-> r.raised, n |-> dpOp.n + 1,
                       ret |-> IF r.raised = "none"
                               THEN <<<<r.p.x_batch, r.p.y_batch>>>>
                               ELSE None,
                       x_data |-> <<>>, y_data |-> <<>>]
    /\ UNCHANGED dpSess
    /\ UNCHANGED <<cellVars, emiVars, nlVars>>

\* restoreFromGraph (443-447)
DP_restoreFromGraph ==
    /\ dpOp.n < MaxOps
    /\ \E graph \in {None} \cup DPGraphs(dp) :
         LET r == DP_restoreGraph(
                    [dp EXCEPT !.graphCreated = FALSE, !.graph = graph],
                    graph)
         IN  /\ dp' = r.p
             /\ dpOp' = [op |-> "restoreFromGraph", raised |-> r.raised,
                         n |-> dpOp.n + 1, ret |-> None,
                         x_data |-> <<>>, y_data |-> <<>>]
    /\ UNCHANGED <<dpGraph, dpSess>>
    /\ UNCHANGED <<cellVars, emiVars, nlVars>>

\* The arrays handed to runInitializer, by their shapes.  x_data: the
\* shape the pipeline was built for, one more sub-instance, timestep or
\* feature, 3-D, 5-D.  y_data: the shape the pipeline was built for, one
\* more bag, sub-instance or output, 1-D, 2-D, 4-D.
XShapes(p, n) ==
    LET S == p.numSubinstance
        T == p.numTimesteps
        F == p.numFeats
    IN  {<<n, S, T, F>>, <<n, S + 1, T, F>>, <<n, S, T + 1, F>>,
         <<n, S, T, F + 1>>, <<n, S, T>>, <<n, S, T, F, 1>>}
YShapes(p, n) ==
    LET S == p.numSubinstance
        O == p.numOutput
    IN  {<<n, S, O>>, <<n + 1, S, O>>, <<n, S + 1, O>>, <<n, S, O + 1>>,
         <<n>>, <<n, S>>, <<n, S, O, 1>>}

\* The pairs (x_data, y_data): at most one of the two is not of the shape
\* the pipeline was built for.
DataPairs(p, n) ==
    LET S == p.numSubinstance
    IN  {<<x, <<n, S, p.numOutput>>>> : x \in XShapes(p, n)}
        \cup {<<<<n, S, p.numTimesteps, p.numFeats>>, y>> :
                 y \in YShapes(p, n)}

\* Session.run checks each fed value against the static shape of the
\* placeholder it is fed to, and raises ValueError before it runs
\* anything when the ranks differ or a known dimension differs.
FeedFits(shape, placeholder) ==
    /\ Len(shape) = Len(placeholder.shape)
    /\ \A i \in 1..Len(shape) :
           placeholder.shape[i] \in {AnyDim, shape[i]}

\* The asserts of runInitializer in their order (458-469, 476), up to the
\* first that fails; y_data.shape[i] of an array of fewer dimensions is an
\* IndexError.
initializerChecks(p, x_data, y_data) ==
    IF ~p.graphCreated THEN "AssertionError"
    ELSE IF Len(x_data) # 4 THEN "AssertionError"
    ELSE IF x_data[2] # p.numSubinstance THEN "AssertionError"
    ELSE IF x_data[3] # p.numTimesteps THEN "AssertionError"
    ELSE IF x_data[4] # p.numFeats THEN "AssertionError"
    ELSE IF Len(y_data) < 1 THEN "IndexError"
    ELSE IF y_data[1] # x_data[1] THEN "AssertionError"
    ELSE IF Len(y_data) < 2 THEN "IndexError"
    ELSE IF y_data[2] # p.numSubinstance THEN "AssertionError"
    ELSE IF Len(y_data) < 3 THEN "IndexError"
    ELSE IF y_data[3] # p.numOutput THEN "AssertionError"
    ELSE IF p.dataset_init = None THEN "AssertionError"
    ELSE "none"

\* sess.run(self.dataset_init, feed_dict) (470-476)
sess_run(s, p, x_data, y_data, batchSize, numEpochs) ==
    IF FeedFits(x_data, p.X[1]) /\ FeedFits(y_data, p.Y[1])
    THEN [s |-> [runs |-> s.runs + 1,
                 iterator |-> <<[init |-> p.dataset_init[1],
                                 x_data |-> x_data, y_data |-> y_data,
                                 batchSize |-> batchSize,
                                 numEpochs |-> numEpochs]>>],
          raised |-> "none"]
    ELSE [s |-> [s EXCEPT !.runs = s.runs + 1], raised |-> "ValueError"]

\* runInitializer (449-476)
runInitializer ==
    /\ dpOp.n < MaxOps
    /\ \E n \in 1..MaxBags, batchSize \in {1}, numEpochs \in {1, 2} :
       \E d \in DataPairs(dp, n) :
         LET x_data == d[1]
             y_data == d[2]
             c == initializerChecks(dp, x_data, y_data)
             r == IF c = "none"
                  THEN sess_run(dpSess, dp, x_data, y_data, batchSize,
                                numEpochs)
                  ELSE [s |-> dpSess, raised |-> c]
         IN  /\ dpSess' = r.s
             /\ dpOp' = [op |-> "runInitializer", raised |-> r.raised,
                         n |-> dpOp.n + 1, ret |-> None,
                         x_data |-> x_data, y_data |-> y_data]
    /\ UNCHANGED <<dp, dpGraph>>
    /\ UNCHANGED <<cellVars, emiVars, nlVars>>

NextDP == DP_call \/ DP_restoreFromGraph \/ runInitializer

SpecDP == InitDP /\ [][NextDP]_vars

(***************************************************************************)
(* The step's arithmetic one element at a time, as the claims state it:    *)
(* row b of the input and of the previous state, unit j of the hidden      *)
(* state.  A batch of one row is broadcast.                                *)
(***************************************************************************)
Row(T, b) == T.val[BIdx(T.shape[1], b)]
Dot(row, M, j) ==
    SumTo([k \in 1..Len(row) |-> RMul(row[k], M.val[k][j])], Len(row))
\* project(v, config): v @ M, or (v @ M1) @ M2
ProjectS(row, rank, M, M1, M2, j) ==
    IF rank = None THEN Dot(row, store[M], j)
    ELSE Dot([r \in 1..rank[1] |-> Dot(row, store[M1], r)], store[M2], j)
preCompS(b, j) ==
    RAdd(ProjectS(Row(inputs, b), cell.wRank, "W", "W1", "W2", j),
         ProjectS(Row(state, b), cell.uRank, "U", "U1", "U2", j))
ScalarS(name) == store[name].val[1][1]
Returned == lastOp = "call"
OutBatch == BDim(inputs.shape[1], state.shape[1])

\* C1: a FastGRNNCell step that returned has computed, for every row b and
\* unit j, z = gateNonlinearity(preComp + biasGate),
\* c = updateNonlinearity(preComp + biasUpdate) and
\* newState = z * prevState + (sigmoid(zeta) * (1 - z) + sigmoid(nu)) * c,
\* with z per unit and zeta, nu scalars.
C1_FastGRNNStep ==
    (Returned /\ cell.cellType = "FastGRNN") =>
        /\ new_state.shape = <<OutBatch, cell.hidden_size>>
        /\ \A b \in 1..OutBatch : \A j \in 1..cell.hidden_size :
             LET pre == preCompS(b, j)
                 z == NonLinS(RAdd(pre, store["B_g"].val[1][j]),
                              cell.gate_non_linearity)
                 c == NonLinS(RAdd(pre, store["B_h"].val[1][j]),
                              cell.update_non_linearity)
             IN  new_state.val[b][j] =
                   RAdd(RMul(z, Row(state, b)[j]),
                        RMul(RAdd(RMul(SigmoidS(ScalarS("zeta")),
                                       RSub(ROne, z)),
                                  SigmoidS(ScalarS("nu"))),
                             c))

\* A second FastGRNN step on a nonzero state, hidden size 2, low-rank W,
\* whose gate differs between the two units.
C1_Witness ==
    /\ Returned /\ cell.cellType = "FastGRNN" /\ nCalls = 2
    /\ cell.hidden_size = 2 /\ cell.wRank # None
    /\ Row(state, 1)[1] # RZero
    /\ NonLinS(RAdd(preCompS(1, 1), store["B_g"].val[1][1]),
               cell.gate_non_linearity)
       # NonLinS(RAdd(preCompS(1, 2), store["B_g"].val[1][2]),
                 cell.gate_non_linearity)

\* C2: a FastRNNCell step that returned has computed
\* candidate = updateNonlinearity(project(input) + project(prevState)
\* + biasUpdate) and newState = sigmoid(beta) * prevState
\* + sigmoid(alpha) * candidate.
C2_FastRNNStep ==
    (Returned /\ cell.cellType = "FastRNN") =>
        /\ new_state.shape = <<OutBatch, cell.hidden_size>>
        /\ \A b \in 1..OutBatch : \A j \in 1..cell.hidden_size :
             LET c == NonLinS(RAdd(preCompS(b, j), store["B_h"].val[1][j]),
                              cell.update_non_linearity)
             IN  new_state.val[b][j] =
                   RAdd(RMul(SigmoidS(ScalarS("beta")), Row(state, b)[j]),
                        RMul(SigmoidS(ScalarS("alpha")), c))

\* A FastRNN step on a nonzero state with a nonzero candidate, where
\* sigmoid(alpha) and sigmoid(beta) differ.
C2_Witness ==
    /\ Returned /\ cell.cellType = "FastRNN"
    /\ Row(state, 1)[1] # RZero
    /\ SigmoidS(ScalarS("alpha")) # SigmoidS(ScalarS("beta"))
    /\ NonLinS(RAdd(preCompS(1, 1), store["B_h"].val[1][1]),
               cell.update_non_linearity) # RZero
    /\ cell.uRank # None

\* C3: for both cells, at every step of any sequence of steps, the output
\* the step returns is the new recurrent state it returns.
C3_OutputIsState == output = new_state

\* A second step of a FastRNN cell returned a state.
C3_Witness ==
    /\ Returned /\ nCalls = 2 /\ cell.cellType = "FastRNN"
    /\ output # NoTensor

(***************************************************************************)
(* The parameters a cell owns, by kind, as the rank configuration fixes    *)
(* them (names of the store).                                              *)
(***************************************************************************)
InputWeights(c) == IF c.wRank = None THEN <<"W">> ELSE <<"W1", "W2">>
RecurrentWeights(c) == IF c.uRank = None THEN <<"U">> ELSE <<"U1", "U2">>
Biases(c) == IF c.cellType = "FastGRNN" THEN <<"B_g", "B_h">> ELSE <<"B_h">>
Scalars(c) ==
    IF c.cellType = "FastGRNN" THEN <<"zeta", "nu">> ELSE <<"alpha", "beta">>
Range(q) == {q[i] : i \in 1..Len(q)}
Owned(c) == Range(InputWeights(c)) \cup Range(RecurrentWeights(c))
            \cup Range(Biases(c)) \cup Range(Scalars(c))
\* Some call has returned.
Stepped == new_state # NoTensor

\* C4: for every rank configuration of either cell, getVars called after a
\* step returns the parameters in the order input weight(s), recurrent
\* weight(s), bias(es), the two scalars.
C4_GetVarsOrder ==
    Stepped =>
        /\ ~getVarsRaises(cell, attrs)
        /\ getVars(cell, attrs) =
             InputWeights(cell) \o RecurrentWeights(cell) \o Biases(cell)
             \o Scalars(cell)

\* A FastGRNN cell with a low-rank W and a full-rank U has stepped.
C4_Witness ==
    /\ Stepped /\ cell.cellType = "FastGRNN"
    /\ cell.wRank # None /\ cell.uRank = None

\* C6: after a step, FastGRNNCell's getVars returns (1 or 2 input weights)
\* + (1 or 2 recurrent weights) + 2 biases + 2 scalars distinct tensors,
\* the two weights counted by which ranks are None: 6 with both None, 8
\* with both set; and these are all the parameters the cell owns.
C6_ParameterCount ==
    (Stepped /\ cell.cellType = "FastGRNN") =>
        /\ ~getVarsRaises(cell, attrs)
        /\ Len(getVars(cell, attrs)) =
             (IF cell.wRank = None THEN 1 ELSE 2)
             + (IF cell.uRank = None THEN 1 ELSE 2) + 2 + 2
        /\ Cardinality(Range(getVars(cell, attrs))) = Len(getVars(cell, attrs))
        /\ Range(getVars(cell, attrs)) = DOMAIN store
        /\ (cell.wRank = None /\ cell.uRank = None
               => Len(getVars(cell, attrs)) = 6)
        /\ (cell.wRank # None /\ cell.uRank # None
               => Len(getVars(cell, attrs)) = 8)

\* A FastGRNN cell with both ranks set has stepped and exposes 8 tensors.
C6_Witness ==
    /\ Stepped /\ cell.cellType = "FastGRNN"
    /\ cell.wRank # None /\ cell.uRank # None
    /\ Cardinality(DOMAIN store) = 8

\* C7: once a step has returned, no later step (and no assignment) adds,
\* removes, renames or resizes a parameter, and the parameters that exist
\* are those the rank configuration fixes.
C7_ParametersFixed ==
    /\ [](Stepped => DOMAIN store = Owned(cell))
    /\ [][Stepped =>
            /\ DOMAIN store' = DOMAIN store
            /\ \A n \in DOMAIN store : store'[n].shape = store[n].shape
            /\ variables' = variables
            /\ attrs' = attrs]_vars

\* After a step has returned, a later call asked for a different input
\* width and raised.
C7_Witness ==
    /\ Stepped /\ lastOp = "raise" /\ nCalls = 2
    /\ inputs.shape[2] = 1 /\ store[InputWeights(cell)[1]].shape[1] = 1

\* C8: constructing a cell creates no parameter: in every state before the
\* first step the store is empty, no parameter attribute is bound and
\* cell.variables is empty.
C8_LazyCreation ==
    nCalls = 0 => (DOMAIN store = {} /\ DOMAIN attrs = {} /\ variables = <<>>)

\* A FastGRNN cell with both ranks set has been constructed and not called.
C8_Witness ==
    /\ nCalls = 0 /\ lastOp = "init" /\ cell.cellType = "FastGRNN"
    /\ cell.wRank # None /\ cell.uRank # None

\* C9: a call of either cell, returning or raising, leaves the value of
\* every existing parameter unchanged; a parameter's value changes only in
\* an external assignment.
C9_ForwardKeepsValues ==
    [][/\ nCalls' = nCalls + 1 =>
            \A n \in DOMAIN store : n \in DOMAIN store' /\ store'[n] = store[n]
       /\ (\E n \in DOMAIN store : n \in DOMAIN store' /\ store'[n] # store[n])
            => lastOp' = "assign"]_vars

\* A second call returned after an assignment changed the weights.
C9_Witness ==
    /\ Returned /\ nCalls = 2
    /\ \E n \in Range(InputWeights(cell)) :
          store[n] = Assigned(store[n])
          /\ store[n] # random_normal_initializer(draw, 0, store[n].shape)
          /\ store[n] # random_normal_initializer(draw, 1, store[n].shape)
          /\ store[n] # random_normal_initializer(draw, 2, store[n].shape)

\* The full-rank cell of the same configuration, with W = W1 @ W2 and
\* U = U1 @ U2.
FullRankCell == [cell EXCEPT !.wRank = None, !.uRank = None,
                             !.num_weight_matrices = <<1, 1>>]
FullRankStore ==
    [n \in (DOMAIN store \ {"W1", "W2", "U1", "U2"}) \cup {"W", "U"} |->
        IF n = "W" /\ cell.wRank # None THEN MatMul(store["W1"], store["W2"])
        ELSE IF n = "U" /\ cell.uRank # None
        THEN MatMul(store["U1"], store["U2"])
        ELSE store[n]]
FullRankCall ==
    LET m == [store |-> FullRankStore, attrs |-> EmptyBind,
              variables |-> <<>>, ok |-> TRUE]
    IN  IF cell.cellType = "FastGRNN"
        THEN FastGRNNCell_call(FullRankCell, m, inputs, state, draw)
        ELSE FastRNNCell_call(FullRankCell, m, inputs, state, draw)

\* C10: for the same input and previous state, a low-rank cell returns the
\* new state the full-rank cell with W = W1 @ W2 (and U = U1 @ U2)
\* returns: (x @ M1) @ M2 = x @ (M1 @ M2).
C10_LowRankIsFullRank ==
    (Returned /\ (cell.wRank # None \/ cell.uRank # None)) =>
        LET r == FullRankCall
        IN  r.m.ok /\ r.ret[2] = new_state

\* A low-rank step on an input of width 2 and a nonzero state of width 2
\* returned a nonzero state.
C10_Witness ==
    /\ Returned /\ cell.wRank # None /\ cell.uRank # None
    /\ cell.hidden_size = 2 /\ inputs.shape[2] = 2
    /\ Row(state, 1)[1] # RZero
    /\ MatMul(inputs, MatMul(store["W1"], store["W2"])).val[1][1] # RZero
    /\ new_state.val[1][1] # RZero

(***************************************************************************)
(* The layout of the restore and assign code against the order of getVars. *)
(***************************************************************************)
Names(l) == [i \in 1..Len(l) |-> l[i].name]
\* What getVars returns on the model's cell once the cell has stepped.
SteppedGetVars(e) ==
    LET m == EMI_cellStepped(e)
        l == getVars(EMI_cell(e).cfg, m.attrs)
    IN  [i \in 1..Len(l) |-> [name |-> l[i], shape |-> m.store[l[i]].shape]]
RestoredAll ==
    /\ emiOp.op = "restoreFromGraph"
    /\ emiOp.raised = "NotImplementedError"
GivenGetVarsOrder ==
    /\ emiOp.op = "addBaseAssignOps"
    /\ initVarList = <<SteppedGetVars(emi)>>

(***************************************************************************)
(* C5.  The positional layout of the restore and assign code of            *)
(* EMI_FastRNN and EMI_FastGRNN is the order of getVars: the varList that  *)
(* _restoreBaseGraph builds names the parameters in getVars order, and     *)
(* addBaseAssignOps, given the list in getVars order, returns and assigns  *)
(* each tensor to the variable of the same name.                           *)
(***************************************************************************)
C5_RestoreLayoutIsGetVarsOrder ==
    /\ RestoredAll => Names(varList) = Names(SteppedGetVars(emi))
    /\ GivenGetVarsOrder =>
          /\ emiOp.raised = "none"
          /\ \A i \in 1..Len(assignOps) :
                assignOps[i].ref = assignOps[i].value

\* C5: addBaseAssignOps was given the list in getVars order, returned, and
\* has assigned a tensor to a variable of another name.
C5_Witness ==
    /\ GivenGetVarsOrder
    /\ emiOp.raised = "none"
    /\ \E i \in 1..Len(assignOps) : assignOps[i].ref # assignOps[i].value

\* C11: for every batch size, input width and hidden size and every rank
\* configuration, the new state a FastRNNCell step returns on an input of
\* batch rows and a previous state of shape [batch, hiddenSize] has shape
\* [batch, hiddenSize].
C11_FastRNNStateShape ==
    (/\ Returned /\ cell.cellType = "FastRNN"
     /\ state.shape = <<Batch(inputs), cell.hidden_size>>) =>
        /\ new_state.shape = <<Batch(inputs), cell.hidden_size>>
        /\ Len(new_state.val) = Batch(inputs)
        /\ \A b \in 1..Batch(inputs) :
              Len(new_state.val[b]) = cell.hidden_size

\* A FastRNN step with a low-rank W returned on a batch of one row of
\* width 2 and hidden size 1, or on a batch of 2 rows and hidden size 2.
C11_Witness ==
    /\ Returned /\ cell.cellType = "FastRNN"
    /\ state.shape = <<Batch(inputs), cell.hidden_size>>
    /\ \/ inputs.shape = <<1, 2>> /\ cell.hidden_size = 1 /\ cell.wRank # None
       \/ inputs.shape = <<2, 1>> /\ cell.hidden_size = 2 /\ cell.uRank # None

(***************************************************************************)
(* The coefficients of the blend, for row b and unit j of the last call:   *)
(* the gate z, the candidate c, and the coefficient of the candidate in    *)
(* FastGRNN.                                                               *)
(***************************************************************************)
\* The gate and the candidate of unit j on the pre-activation pre, and the
\* candidate's coefficient on the gate z.
GateOf(pre, j) ==
    NonLinS(RAdd(pre, store["B_g"].val[1][j]), cell.gate_non_linearity)
CandOf(pre, j) ==
    NonLinS(RAdd(pre, store["B_h"].val[1][j]), cell.update_non_linearity)
CandCoefOf(z) ==
    RAdd(RMul(SigmoidS(ScalarS("zeta")), RSub(ROne, z)),
         SigmoidS(ScalarS("nu")))
GateS(b, j) == GateOf(preCompS(b, j), j)
CandS(b, j) == CandOf(preCompS(b, j), j)
CandCoefS(b, j) == CandCoefOf(GateS(b, j))
Blend(kh, h, kc, c) == RAdd(RMul(kh, h), RMul(kc, c))
InUnit(k) == RLess(RZero, k) /\ RLess(k, ROne)

\* C12 as stated: in every step of either cell the coefficient of
\* prevState (sigmoid(beta), or z) and the coefficient of the candidate
\* (sigmoid(alpha), or sigmoid(zeta)*(1-z)+sigmoid(nu)) lie strictly
\* between 0 and 1, for every parameter value and every gate nonlinearity.
C12_BlendInUnitInterval ==
    Returned =>
        IF cell.cellType = "FastRNN"
        THEN InUnit(SigmoidS(ScalarS("beta")))
             /\ InUnit(SigmoidS(ScalarS("alpha")))
        ELSE \A b \in 1..OutBatch : \A j \in 1..cell.hidden_size :
                InUnit(GateS(b, j)) /\ InUnit(CandCoefS(b, j))

\* C12, amended: the step blends prevState and the candidate with these
\* coefficients; sigmoid(beta), sigmoid(alpha), sigmoid(zeta) and
\* sigmoid(nu) lie strictly between 0 and 1 for every parameter value; in
\* FastGRNN the gate z lies in (0,1) with the sigmoid gate and in [0,1]
\* with quantSigm, and the coefficient of the candidate then lies in (0,2).
C12_BlendBounds ==
    Returned =>
        IF cell.cellType = "FastRNN"
        THEN /\ InUnit(SigmoidS(ScalarS("beta")))
             /\ InUnit(SigmoidS(ScalarS("alpha")))
             /\ \A b \in 1..OutBatch : \A j \in 1..cell.hidden_size :
                   new_state.val[b][j] =
                      Blend(SigmoidS(ScalarS("beta")), Row(state, b)[j],
                            SigmoidS(ScalarS("alpha")), CandS(b, j))
        ELSE /\ InUnit(SigmoidS(ScalarS("zeta")))
             /\ InUnit(SigmoidS(ScalarS("nu")))
             /\ \A b \in 1..OutBatch : \A j \in 1..cell.hidden_size :
                   LET pre == preCompS(b, j)
                       z == GateOf(pre, j)
                       k == CandCoefOf(z)
                   IN  /\ new_state.val[b][j] =
                             Blend(z, Row(state, b)[j], k, CandOf(pre, j))
                       /\ cell.gate_non_linearity = "sigmoid" => InUnit(z)
                       /\ cell.gate_non_linearity = "quantSigm" =>
                             RLeq(RZero, z) /\ RLeq(z, ROne)
                       /\ cell.gate_non_linearity \in {"sigmoid", "quantSigm"}
                             => RLess(RZero, k) /\ RLess(k, RInt(2))

\* A FastGRNN step with the sigmoid gate returned, its gate is inside
\* (0,1), and its candidate has a coefficient of 1 or more.
C12_Witness ==
    /\ Returned /\ cell.cellType = "FastGRNN"
    /\ cell.gate_non_linearity = "sigmoid"
    /\ \E b \in 1..OutBatch : \E j \in 1..cell.hidden_size :
          /\ InUnit(GateS(b, j))
          /\ RLeq(ROne, CandCoefS(b, j))
          /\ CandS(b, j) # RZero

(***************************************************************************)
(* gen_non_linearity, element by element.                                  *)
(***************************************************************************)
Applied == nlResult # NoTensor
Recognised == {"tanh", "sigmoid", "relu", "quantTanh", "quantSigm"}
Clip(x, lo, hi) ==
    IF RLeq(x, lo) THEN lo ELSE IF RLeq(hi, x) THEN hi ELSE x

\* C13: gen_non_linearity called with a name that is none of tanh, sigmoid,
\* relu, quantTanh, quantSigm returns, for every input, what it returns
\* with the name tanh, and raises no error.
C13_UnknownNameIsTanh ==
    (Applied /\ nlName \notin Recognised) =>
        /\ nlResult.shape = nlA.shape
        /\ nlResult = gen_non_linearity(nlA, "tanh")
        /\ \A j \in 1..nlA.shape[2] :
              nlResult.val[1][j] = TanhS(nlA.val[1][j])

\* The function was applied with the name Sigmoid to an input whose tanh
\* and sigmoid differ from each other and from the input.
C13_Witness ==
    /\ Applied /\ nlName = "Sigmoid"
    /\ nlResult.val[1][1] # SigmoidS(nlA.val[1][1])
    /\ nlResult.val[1][1] # nlA.val[1][1]
    /\ nlResult.val[1][2] # nlResult.val[1][1]

\* C14: for every x, gen_non_linearity(x, quantTanh) is clip(x, -1, 1): x
\* when -1 <= x <= 1, exactly 1 when x >= 1, exactly -1 when x <= -1.
C14_QuantTanhIsClip ==
    (Applied /\ nlName = "quantTanh") =>
        \A j \in 1..nlA.shape[2] :
            LET x == nlA.val[1][j]
                y == nlResult.val[1][j]
            IN  /\ y = Clip(x, RInt(-1), ROne)
                /\ RLeq(ROne, x) => y = ROne
                /\ RLeq(x, RInt(-1)) => y = RInt(-1)
                /\ (RLeq(RInt(-1), x) /\ RLeq(x, ROne)) => y = x

\* quantTanh was applied to an element below -1 and an element strictly
\* between 0 and 1.
C14_Witness ==
    /\ Applied /\ nlName = "quantTanh"
    /\ RLess(nlA.val[1][1], RInt(-1))
    /\ RLess(RZero, nlA.val[1][2]) /\ RLess(nlA.val[1][2], ROne)

\* C15: for every x, gen_non_linearity(x, quantSigm) is
\* clip((x+1)/2, 0, 1): 0 for x <= -1, 1 for x >= 1, (x+1)/2 in between.
C15_QuantSigmIsClip ==
    (Applied /\ nlName = "quantSigm") =>
        \A j \in 1..nlA.shape[2] :
            LET x == nlA.val[1][j]
                y == nlResult.val[1][j]
                half == RMul(RAdd(x, ROne), Rat(1, 2))
            IN  /\ y = Clip(half, RZero, ROne)
                /\ RLeq(x, RInt(-1)) => y = RZero
                /\ RLeq(ROne, x) => y = ROne
                /\ (RLess(RInt(-1), x) /\ RLess(x, ROne)) => y = half

\* quantSigm was applied to an element above 1 and an element strictly
\* between -1 and 0.
C15_Witness ==
    /\ Applied /\ nlName = "quantSigm"
    /\ RLess(ROne, nlA.val[1][1])
    /\ RLess(RInt(-1), nlA.val[1][2]) /\ RLess(nlA.val[1][2], RZero)

(***************************************************************************)
(* FastGRNN against FastRNN.  The FastRNN twin of a FastGRNN cell has its  *)
(* hidden size, ranks, update nonlinearity, weights and update bias, and   *)
(* scalars alpha and beta; its step is FastRNNCell.call on the same input  *)
(* and previous state.                                                     *)
(***************************************************************************)
\* One argument per value of the sigmoid table.
TwinScalars ==
    {RInt(-2), RInt(-1), Rat(-1, 2), RZero, Rat(1, 2), RInt(1), RInt(2)}
TwinStore ==
    [n \in DOMAIN store \ {"zeta", "nu", "B_g"} |-> store[n]]
FastRNNTwin(alpha, beta) ==
    FastRNNCell_call(
        FastRNNCell_init(cell.hidden_size, cell.update_non_linearity,
                         cell.wRank, cell.uRank, alpha, beta).cfg,
        [store |-> TwinStore, attrs |-> EmptyBind, variables |-> <<>>,
         ok |-> TRUE],
        inputs, state, draw)
\* The scalars <<alpha, beta>> for which the gate z is sigmoid(beta) and the
\* candidate's coefficient k is sigmoid(alpha).
TwinsOf(z, k) ==
    {alpha \in TwinScalars : k = SigmoidS(alpha)}
    \X {beta \in TwinScalars : z = SigmoidS(beta)}

\* The two steps on scalars (hidden size 1, input width 1, full rank), as
\* C1 and C2 state them.
FastRNNStepS(p, unl, x, h) ==
    LET pre == RAdd(RMul(x, p.w), RMul(h, p.u))
        c == NonLinS(RAdd(pre, p.bh), unl)
    IN  Blend(SigmoidS(p.beta), h, SigmoidS(p.alpha), c)
FastGRNNStepS(p, unl, x, h) ==
    LET pre == RAdd(RMul(x, p.w), RMul(h, p.u))
        z == NonLinS(RAdd(pre, p.bg), p.gnl)
        c == NonLinS(RAdd(pre, p.bh), unl)
    IN  Blend(z, h,
              RAdd(RMul(SigmoidS(p.zeta), RSub(ROne, z)), SigmoidS(p.nu)), c)
\* The parameters of the FastRNN cell of the current state.
FastRNNParams ==
    [w |-> store["W"].val[1][1], u |-> store["U"].val[1][1],
     bh |-> store["B_h"].val[1][1],
     alpha |-> ScalarS("alpha"), beta |-> ScalarS("beta")]
WeightGrid == {RInt(-1), RZero, RInt(1)}
BiasGrid == {RInt(-2), RInt(-1), RZero, RInt(1), RInt(2)}
FastGRNNParams ==
    [w : WeightGrid, u : WeightGrid, bg : BiasGrid, bh : WeightGrid,
     zeta : BiasGrid, nu : BiasGrid,
     gnl : {"tanh", "sigmoid", "relu", "quantTanh", "quantSigm"}]
TestPoints == {RInt(-4), RInt(-2), RInt(-1), RZero, RInt(1), RInt(2), RInt(4)}

CellCall(x, h) ==
    IF cell.cellType = "FastGRNN"
    THEN FastGRNNCell_call(cell, Machine, x, h, draw)
    ELSE FastRNNCell_call(cell, Machine, x, h, draw)
WideState(x) == constant_initializer(RZero, <<Batch(x), cell.hidden_size + 1>>)
\* If this step is the call on (x, h), it raised and created no variable.
RaisedBeforeCreating(x, h) ==
    Called(CellCall(x, h), x, h) =>
        /\ lastOp' = "raise"
        /\ store' = store /\ variables' = variables /\ attrs' = attrs

\* C17: a cell step called with an input that is not 2-dimensional, or with
\* a previous state whose width is not hidden_size, fails at call time, and
\* the failed step has created no parameter.
C17_BadShapeFailsBeforeCreating ==
    [][/\ \A x \in InputsNot2D : RaisedBeforeCreating(x, ZeroState(cell, x))
       /\ \A x \in Inputs(nCalls) : RaisedBeforeCreating(x, WideState(x))]_vars

\* The first call of a cell raised and left variables behind.
C17_Witness ==
    /\ lastOp = "raise" /\ nCalls = 1
    /\ DOMAIN store # {} /\ variables # <<>>

(***************************************************************************)
(* addBaseAssignOps on a list of the wrong length.                         *)
(***************************************************************************)
\* The number of parameters of the model's rank configuration.
NumParams(e) == Len(WNames(e)) + Len(UNames(e)) + Len(EMI_tail(e))
\* This step is addBaseAssignOps with the name graph bound and a list whose
\* length is not NumParams.
AssignsWrongLength ==
    /\ emiOp'.op = "addBaseAssignOps" /\ emiOp'.n = emiOp.n + 1
    /\ globalGraph # None
    /\ initVarList' # None
    /\ Len(initVarList'[1]) # NumParams(emi)

\* C18: addBaseAssignOps given an initVarList whose length differs from the
\* number of parameters of the rank configuration, too short or too long,
\* fails, and assignOps is what it was before the call.
C18_WrongLengthFailsFast ==
    [][AssignsWrongLength =>
          (emiOp'.raised # "none" /\ assignOps' = assignOps)]_vars

\* addBaseAssignOps has returned without an error on a list one element
\* too long, with assign operations appended.
C18_Witness ==
    /\ emiOp.op = "addBaseAssignOps" /\ emiOp.raised = "none"
    /\ initVarList # None
    /\ Len(initVarList[1]) = NumParams(emi) + 1
    /\ Len(assignOps) >= NumParams(emi)

(***************************************************************************)
(* The graph _createBaseGraph unrolls.                                     *)
(***************************************************************************)
\* __call__ has built the base graph: it got as far as _createExtendedGraph.
BaseGraphCreated ==
    /\ emiOp.op = "call" /\ emiOp.raised = "NotImplementedError"
    /\ emi.graph = None
ZeroRow(e) == [j \in 1..e.numHidden |-> RZero]
\* Unit j of the state the cell of model e returns on the input row x and
\* the previous state row h, as C1 and C2 state it.
UnitStateS(e, x, h, j) ==
    LET pre == RAdd(ProjectS(x, e.wRank, "W", "W1", "W2", j),
                    ProjectS(h, e.uRank, "U", "U1", "U2", j))
        c == NonLinS(RAdd(pre, store["B_h"].val[1][j]),
                     e.update_non_linearity)
        z == NonLinS(RAdd(pre, store["B_g"].val[1][j]), e.gate_non_linearity)
    IN  IF e.kind = "FastGRNN"
        THEN Blend(z, h[j],
                   RAdd(RMul(SigmoidS(ScalarS("zeta")), RSub(ROne, z)),
                        SigmoidS(ScalarS("nu"))),
                   c)
        ELSE Blend(SigmoidS(ScalarS("beta")), h[j],
                   SigmoidS(ScalarS("alpha")), c)

FirstCall ==
    /\ emiOp.op = "init" /\ emi.graph = None
    /\ emiOp'.op = "call"
    /\ Len(X'.shape) = 4
    /\ X'.shape[2] = emi.numSubinstance
    /\ X'.shape[3] = emi.numTimeSteps
    /\ X'.shape[4] = emi.numFeats

\* C20: calling a freshly constructed EMI model (graph=None) on a
\* correctly shaped 4-D input X returns the model's bag-output tensor, and
\* graphCreated is True when it returns.
C20_FirstCallReturnsOutput ==
    [][FirstCall =>
          /\ emiOp'.raised = "none"
          /\ graphCreated'
          /\ modelOutput' # None
          /\ modelOutput'[1].shape = <<X'.shape[1], emi.numSubinstance,
                                       emi.numTimeSteps, emi.numHidden>>]_vars

\* The first __call__ of a model with graph=None has raised
\* NotImplementedError after building the base graph, and graphCreated is
\* False.
C20_Witness ==
    /\ BaseGraphCreated /\ emiOp.n = 1
    /\ ~graphCreated
    /\ modelOutput # None /\ varList # <<>>

\* The step is a call of __call__; the base and the extended step of a
\* model with the constructor's graph g.
ModelCalled == emiOp'.op = "call" /\ emiOp'.n = emiOp.n + 1
BaseStep(g) ==
    IF g = None THEN "_createBaseGraph" ELSE "_restoreBaseGraph"
ExtendedStep(g) ==
    IF g = None THEN "_createExtendedGraph" ELSE "_restoreExtendedGraph"

AssignsRestored ==
    /\ emiOp'.op = "addBaseAssignOps" /\ emiOp'.n = emiOp.n + 1
    /\ emi.graph # None /\ globalGraph = emi.graph
    /\ Len(varList) = Len(RestoreNames(emi))
    /\ initVarList' = <<varList>>
\* Element i of l assigned to the variable it was restored from.
AssignedToOwn(l) ==
    [i \in 1..Len(l) |-> [ref |-> l[i].name, value |-> l[i].name]]

\* C24: for every EMI model and every rank configuration, the list
\* getHyperParams returns after a restore (self.varList) is accepted by the
\* same model's addBaseAssignOps: the length check passes, every index read
\* lies within the list, and each element is assigned to the variable it
\* was restored from.
C24_RestoredListIsAccepted ==
    [][AssignsRestored =>
         /\ emiOp'.raised = "none"
         /\ assignOps' = assignOps \o AssignedToOwn(varList)]_vars

\* __call__ on a model with graph None has run _createBaseGraph to its
\* end: varList holds cell.variables.
CreatedList ==
    /\ emiOp.op = "call" /\ emi.graph = None
    /\ emiOp.steps = <<"_createBaseGraph", "_createExtendedGraph">>
\* The varList _restoreBaseGraph fills from the graph a model of
\* configuration e leaves.
RestoredList(e) ==
    restoreBaseGraph([e EXCEPT !.graph = <<GraphOf(e)>>], <<GraphOf(e)>>,
                     FALSE,
                     [varList |-> <<>>, output |-> None, raised |-> "none"],
                     TensorsOf(GraphOf(e))).varList
Distinct(l) == \A i, j \in 1..Len(l) : l[i].name = l[j].name => i = j

InitializerCalled == dpOp'.op = "runInitializer" /\ dpOp'.n = dpOp.n + 1
\* x_data is [*, numSubinstance, numTimesteps, numFeats] and y_data is
\* [the same, numSubinstance, numOutput].
DataFits(p, x_data, y_data) ==
    /\ Len(x_data) = 4
    /\ SubSeq(x_data, 2, 4) = <<p.numSubinstance, p.numTimesteps, p.numFeats>>
    /\ y_data = <<x_data[1], p.numSubinstance, p.numOutput>>

\* C21: runInitializer runs the dataset initializer only if graphCreated
\* is True, x_data is 4-D of shape [*, numSubinstance, numTimesteps,
\* numFeats] and y_data has the same first dimension and the shape
\* [*, numSubinstance, numOutput]; in every other case it raises before
\* the session is run and the fields of the pipeline are unchanged.
C21_InitializerRunsOnlyOnFittingData ==
    [][InitializerCalled =>
         LET fits == dp.graphCreated
                     /\ DataFits(dp, dpOp'.x_data, dpOp'.y_data)
         IN  /\ dpSess'.iterator # dpSess.iterator => fits
             /\ dpOp'.raised = "none" => fits
             /\ ~fits => /\ dpOp'.raised # "none"
                         /\ dpSess' = dpSess
                         /\ dp' = dp]_vars

\* The step is a call of __call__, and the pair the pipeline stores.
PipelineCalled == dpOp'.op = "call" /\ dpOp'.n = dpOp.n + 1
StoredPair(p) == <<p.x_batch, p.y_batch>>

\* C22: __call__ builds or restores the input graph at most once.  A call
\* made while graphCreated is False that returns has created the graph in
\* the default graph when the constructor's graph is None (and creating
\* never raises), and has taken its tensors from that graph otherwise, and
\* has set graphCreated to True; a call made while graphCreated is True
\* returns the stored pair and changes neither the pipeline nor the default
\* graph; and until restoreFromGraph is called the stored pair and
\* graphCreated stay as they are.
C22_CallBuildsAtMostOnce ==
    [][/\ PipelineCalled /\ dp.graphCreated =>
            /\ dp' = dp /\ dpGraph' = dpGraph
            /\ dpOp'.raised = "none"
            /\ dpOp'.ret = <<StoredPair(dp)>>
       /\ PipelineCalled /\ ~dp.graphCreated /\ dp.graph = None =>
            /\ dpOp'.raised = "none"
            /\ dpGraph'.created = dpGraph.created + 1
            /\ dp'.graphCreated
            /\ dpOp'.ret = <<StoredPair(dp')>>
            /\ dp'.x_batch[1].graph = <<"default", dpGraph'.created>>
       /\ PipelineCalled /\ ~dp.graphCreated /\ dp.graph # None
            /\ dpOp'.raised = "none" =>
            /\ dpGraph' = dpGraph
            /\ dp'.graphCreated
            /\ dpOp'.ret = <<StoredPair(dp')>>
            /\ StoredPair(dp') = <<<<dp.graph[1].nextX[1]>>,
                                   <<dp.graph[1].nextY[1]>>>>
       /\ dp.graphCreated /\ dpOp'.op # "restoreFromGraph" =>
            /\ dp'.graphCreated
            /\ StoredPair(dp') = StoredPair(dp)]_vars
\* A second call after the one that created the graph and a run of the
\* initializer: three operations, one sub-graph built.
C22_Witness ==
    /\ dpOp.op = "call" /\ dpOp.raised = "none" /\ dpOp.n = 3
    /\ dpSess.runs = 1
    /\ dpGraph.created = 1
    /\ dpOp.ret = <<StoredPair(dp)>>

====
